---- MODULE Spec2Model ----
(***************************************************************************)
(* Pipeline-and-retrieval subsystem of the insurance policy parser:        *)
(* chunking, the TF-IDF embedding store, scoped similarity search, the     *)
(* four-stage Celery chain and the processing-task tracker.                *)
(*                                                                         *)
(* Texts are TLA+ strings (Len, \o and SubSeq act on them as on Python     *)
(* strings).  Python values are tagged records: None, Str(s), ListV(l).    *)
(* A Python dict is a sequence of [k, v] pairs in insertion order.         *)
(***************************************************************************)
EXTENDS Integers, Sequences, FiniteSets, TLC

VARIABLES
    \* ---- chunking harness (pure functions applied to drawn inputs)
    cj_data,        \* the policy_data dict handed to chunk_policy_json
    cj_ingest,      \* result of scripts.ingest_policies_to_vector_db.chunk_policy_json
    cj_store,       \* result of scripts.store_policy_chunks.chunk_policy_json
    \* ---- persistent store and library build
    policy_chunks,  \* rows of the policy_chunks table, in the order a query reads them
    lib_resets_tfidf, \* scikit-learn build: TfidfVectorizer.fit makes a new idf transformer before it can fail
    \* ---- one VectorService object and the results of the calls made on it
    svc,            \* the VectorService (NotRun before construction)
    svc_call,       \* the last call made on it and its outcome
    \* ---- upload-and-process request, broker, workers and the chain they run
    upload,         \* the upload_and_process request: where the handler is, its file paths, its response
    temp_files,     \* the files present in the request's temporary directory
    policy_rows,    \* rows of the processed_policy_data table
    broker,         \* task messages waiting in the broker
    worker,         \* per Celery worker: the stage task it is running, or idle
    returned,       \* result backend: per chain position (0 = run_chained_pipeline) the value returned
    stage_log,      \* per stage: the items whose loop body started and those it raised in (history)
    \* ---- processing-task tracker
    processing_tasks, \* rows of the processing_tasks table by task_id
    celery_tasks,   \* result backend as AsyncResult shows it: state and progress meta per Celery task id
    task_log,       \* per task_id: the statuses the row has held, the progress before the last write (history)
    upload_reply,   \* the last response of upload_policy
    \* ---- stores and calls the stage tasks share
    policies,       \* rows of the policies table
    threads,        \* calls in progress on one VectorService object, statement by statement
    step,           \* per stage, the last call run_pipeline_step made of it
    query_call,     \* the last response of query_policy
    query_prev      \* the response of query_policy before that one

chunkVars == <<cj_data, cj_ingest, cj_store>>
vectorVars == <<policy_chunks, lib_resets_tfidf, svc, svc_call>>
chainVars == <<upload, temp_files, broker, worker, returned, stage_log>>
trackerVars == <<processing_tasks, celery_tasks, task_log, upload_reply>>
storeVars == <<policies, threads, step, query_call, query_prev>>

vars == <<chunkVars, vectorVars, chainVars, policy_rows, trackerVars, storeVars>>

----------------------------------------------------------------------------
(* Python values *)

None == [t |-> "none"]
Str(s) == [t |-> "str", s |-> s]
ListV(l) == [t |-> "list", l |-> l]

\* a value that has not been computed yet (harness only)
NotRun == [t |-> "notrun"]

\* bool(value) for the value kinds of the model
Truthy(v) ==
    CASE v.t = "none" -> FALSE
      [] v.t = "str"  -> v.s # ""
      [] v.t = "list" -> v.l # <<>>
      [] OTHER        -> TRUE

\* dict.get(key) with the default None
DictGet(d, key) ==
    IF \E i \in 1..Len(d) : d[i].k = key
    THEN d[CHOOSE i \in 1..Len(d) : d[i].k = key].v
    ELSE None

Min(a, b) == IF a < b THEN a ELSE b

CharAt(s, i) == SubSeq(s, i, i)

Whitespace == {" ", "\n", "\t"}

\* text.strip() == "" : every character is whitespace
IsBlank(s) == \A i \in 1..Len(s) : CharAt(s, i) \in Whitespace

RECURSIVE Join(_, _)
\* sep.join(parts)
Join(parts, sep) ==
    IF parts = <<>> THEN ""
    ELSE IF Len(parts) = 1 THEN parts[1]
    ELSE parts[1] \o sep \o Join(Tail(parts), sep)

RECURSIVE Repeat(_, _)
\* s * n
Repeat(s, n) == IF n <= 0 THEN "" ELSE s \o Repeat(s, n - 1)

----------------------------------------------------------------------------
(* Chunking Engine *)

chunk_size == 1000

\* keys chunk_policy_json keeps out of the policy_details chunk
ExcludedKeys ==
    {"coverage_details", "raw_text", "text", "content", "document_text", "full_text"}

possible_fields == <<"raw_text", "text", "content", "document_text", "full_text">>

RECURSIVE KeyValueLines(_)
\* [f"{key}: {value}" for key, value in d.items() if value is not None]
KeyValueLines(d) ==
    IF d = <<>> THEN <<>>
    ELSE IF Head(d).v.t = "none" THEN KeyValueLines(Tail(d))
    ELSE <<Head(d).k \o ": " \o Head(d).v.s>> \o KeyValueLines(Tail(d))

RECURSIVE DropKeys(_, _)
DropKeys(d, keys) ==
    IF d = <<>> THEN <<>>
    ELSE IF Head(d).k \in keys THEN DropKeys(Tail(d), keys)
    ELSE <<Head(d)>> \o DropKeys(Tail(d), keys)

\* the policy_details list both chunkers and extract_raw_text build
PolicyDetailLines(policy_data) == KeyValueLines(DropKeys(policy_data, ExcludedKeys))

\* the coverage list when policy_data.get('coverage_details') is truthy, else empty
CoverageList(policy_data) ==
    LET c == DictGet(policy_data, "coverage_details")
    IN IF Truthy(c) /\ c.t = "list" THEN c.l ELSE <<>>

RECURSIVE CoverageChunks(_, _, _, _)
\* for i, coverage in enumerate(coverage_details): label f"coverage_{i+1}"
CoverageChunks(covs, i, policy_id, source_filename) ==
    IF i > Len(covs) THEN <<>>
    ELSE LET lines == KeyValueLines(covs[i])
             rest == CoverageChunks(covs, i + 1, policy_id, source_filename)
         IN IF lines = <<>> THEN rest
            ELSE <<[policy_id |-> policy_id,
                    document_source_filename |-> source_filename,
                    section_type |-> "coverage_" \o ToString(i),
                    chunk_text |-> Join(lines, "\n")]>> \o rest

RECURSIVE RawTextChunks_Overlap(_, _, _, _)
\* slip: the slice end is inclusive, so neighbouring segments share a character
RawTextChunks_Overlap(raw_text, i, policy_id, source_filename) ==
    IF i >= Len(raw_text) THEN <<>>
    ELSE <<[policy_id |-> policy_id,
            document_source_filename |-> source_filename,
            section_type |-> "raw_text",
            chunk_text |-> SubSeq(raw_text, i + 1, Min(i + chunk_size + 1, Len(raw_text)))]>>
         \o RawTextChunks_Overlap(raw_text, i + chunk_size, policy_id, source_filename)

RECURSIVE RawTextChunks(_, _, _, _)
\* for i in range(0, len(raw_text), chunk_size): raw_text[i:i + chunk_size]
RawTextChunks(raw_text, i, policy_id, source_filename) ==
    IF i >= Len(raw_text) THEN <<>>
    ELSE <<[policy_id |-> policy_id,
            document_source_filename |-> source_filename,
            section_type |-> "raw_text",
            chunk_text |-> SubSeq(raw_text, i + 1, Min(i + chunk_size, Len(raw_text)))]>>
         \o RawTextChunks(raw_text, i + chunk_size, policy_id, source_filename)

RECURSIVE FirstTextField(_, _)
\* the first of possible_fields holding a str with non-blank content, else None
FirstTextField(policy_data, fields) ==
    IF fields = <<>> THEN None
    ELSE LET text == DictGet(policy_data, Head(fields))
         IN IF text.t = "str" /\ ~IsBlank(text.s) THEN text
            ELSE FirstTextField(policy_data, Tail(fields))

RECURSIVE CoverageTexts(_)
CoverageTexts(covs) ==
    IF covs = <<>> THEN <<>>
    ELSE LET lines == KeyValueLines(Head(covs))
         IN IF lines = <<>> THEN CoverageTexts(Tail(covs))
            ELSE <<Join(lines, "\n")>> \o CoverageTexts(Tail(covs))

extract_raw_text(policy_data) ==
    LET found == FirstTextField(policy_data, possible_fields)
    IN IF found.t = "str" THEN found.s
       ELSE Join(PolicyDetailLines(policy_data)
                 \o CoverageTexts(CoverageList(policy_data)), "\n\n")

DetailsChunk(policy_data, policy_id, source_filename) ==
    LET lines == PolicyDetailLines(policy_data)
    IN IF lines = <<>> THEN <<>>
       ELSE <<[policy_id |-> policy_id,
               document_source_filename |-> source_filename,
               section_type |-> "policy_details",
               chunk_text |-> Join(lines, "\n")]>>

\* scripts/store_policy_chunks.py (stage 3)
StoreRawText(policy_data) ==
    LET r == DictGet(policy_data, "raw_text")
    IN IF Truthy(r) /\ r.t = "str" THEN r.s ELSE ""

\* a chunker that emits the raw-text segments before the other chunks
chunk_policy_json_store_RawFirst(policy_data, policy_id, source_filename) ==
    RawTextChunks(StoreRawText(policy_data), 0, policy_id, source_filename)
    \o DetailsChunk(policy_data, policy_id, source_filename)
    \o CoverageChunks(CoverageList(policy_data), 1, policy_id, source_filename)

chunk_policy_json_store(policy_data, policy_id, source_filename) ==
    DetailsChunk(policy_data, policy_id, source_filename)
    \o CoverageChunks(CoverageList(policy_data), 1, policy_id, source_filename)
    \o RawTextChunks(StoreRawText(policy_data), 0, policy_id, source_filename)

\* scripts/ingest_policies_to_vector_db.py (stage 2)
chunk_policy_json_ingest(policy_data, policy_id, source_filename) ==
    DetailsChunk(policy_data, policy_id, source_filename)
    \o CoverageChunks(CoverageList(policy_data), 1, policy_id, source_filename)
    \o RawTextChunks(extract_raw_text(policy_data), 0, policy_id, source_filename)

----------------------------------------------------------------------------
(* Text helpers: characters, case, ordering, searching *)

UpperStr == "ABCDEFGHIJKLMNOPQRSTUVWXYZ"
LowerStr == "abcdefghijklmnopqrstuvwxyz"
DigitStr == "0123456789"

\* code-point order of the characters a vocabulary term can hold
CharOrder == " " \o DigitStr \o "_" \o LowerStr

\* 1-based position of character c in str, 0 when absent
IndexIn(c, str) ==
    IF \E i \in 1..Len(str) : CharAt(str, i) = c
    THEN CHOOSE i \in 1..Len(str) : CharAt(str, i) = c
    ELSE 0

CharsOf(str) == {CharAt(str, i) : i \in 1..Len(str)}

\* lookup tables over the characters above
LowerTable == [c \in CharsOf(UpperStr) |-> CharAt(LowerStr, IndexIn(c, UpperStr))]
RankTable == [c \in CharsOf(CharOrder) |-> IndexIn(c, CharOrder)]
WordChars == CharsOf(UpperStr \o LowerStr \o DigitStr \o "_")

LowerChar(c) == IF c \in DOMAIN LowerTable THEN LowerTable[c] ELSE c

RECURSIVE LowerFrom(_, _)
LowerFrom(s, i) == IF i > Len(s) THEN "" ELSE LowerChar(CharAt(s, i)) \o LowerFrom(s, i + 1)

\* str.lower()
Lower(s) == LowerFrom(s, 1)

\* \w of the token pattern
IsWordChar(c) == c \in WordChars

RECURSIVE StrLessFrom(_, _, _)
StrLessFrom(a, b, i) ==
    IF i > Len(b) THEN FALSE
    ELSE IF i > Len(a) THEN TRUE
    ELSE LET x == RankTable[CharAt(a, i)]
             y == RankTable[CharAt(b, i)]
         IN IF x < y THEN TRUE
            ELSE IF x > y THEN FALSE
            ELSE StrLessFrom(a, b, i + 1)

\* a < b on Python strings
StrLess(a, b) == StrLessFrom(a, b, 1)

\* x placed into the sorted sequence q
InsertSorted(q, x, k) == SubSeq(q, 1, k) \o <<x>> \o SubSeq(q, k + 1, Len(q))

RECURSIVE SortInto(_, _)
SortInto(q, S) ==
    IF S = {} THEN q
    ELSE LET x == CHOOSE y \in S : TRUE
         IN SortInto(InsertSorted(q, x, Cardinality({i \in 1..Len(q) : StrLess(q[i], x)})),
                     S \ {x})

\* sorted(S) for a set of strings
SortedTerms(S) == SortInto(<<>>, S)

\* least 1-based index >= from at which sub occurs in s, 0 when it does not
FindFrom(s, sub, from) ==
    LET hits == {i \in from..(Len(s) - Len(sub) + 1) : SubSeq(s, i, i + Len(sub) - 1) = sub}
    IN IF hits = {} THEN 0 ELSE CHOOSE i \in hits : \A j \in hits : i <= j

\* sub in s
Contains(s, sub) == FindFrom(s, sub, 1) # 0

StartsWith(s, prefix) == Len(s) >= Len(prefix) /\ SubSeq(s, 1, Len(prefix)) = prefix

\* str.strip()
Strip(s) ==
    LET solid == {i \in 1..Len(s) : CharAt(s, i) \notin Whitespace}
    IN IF solid = {} THEN ""
       ELSE SubSeq(s, CHOOSE i \in solid : \A j \in solid : i <= j,
                      CHOOSE i \in solid : \A j \in solid : i >= j)

Range(f) == {f[i] : i \in DOMAIN f}

RECURSIVE SumRange(_, _, _)
\* q[lo] + ... + q[hi], halving the range
SumRange(q, lo, hi) ==
    IF lo > hi THEN 0
    ELSE IF lo = hi THEN q[lo]
    ELSE SumRange(q, lo, (lo + hi) \div 2) + SumRange(q, ((lo + hi) \div 2) + 1, hi)

\* sum(q)
SumSeq(q) == SumRange(q, 1, Len(q))

----------------------------------------------------------------------------
(* Embedding Store: the TfidfVectorizer of VectorService *)

max_features == 1000
min_df == 2
max_df_percent == 95
default_vocab_size == 1000

\* members of scikit-learn's English stop-word list that the model's texts use
StopWords == {"the", "of", "and", "is", "who", "what", "for", "to", "from", "with", "in", "on"}

RECURSIVE Words(_, _, _)
\* findall of the token pattern (?u)\b\w\w+\b: the runs of two or more word characters
Words(s, i, cur) ==
    IF i > Len(s) THEN (IF Len(cur) >= 2 THEN <<cur>> ELSE <<>>)
    ELSE IF IsWordChar(CharAt(s, i)) THEN Words(s, i + 1, cur \o CharAt(s, i))
    ELSE (IF Len(cur) >= 2 THEN <<cur>> ELSE <<>>) \o Words(s, i + 1, "")

\* the analyzer: lowercase, tokenize, drop stop words, then unigrams followed by bigrams
Terms(text) ==
    LET w == SelectSeq(Words(Lower(text), 1, ""), LAMBDA x : x \notin StopWords)
    IN w \o [i \in 1..(Len(w) - 1) |-> w[i] \o " " \o w[i + 1]]

\* occurrences of term in a term sequence
TermCount(term, terms) == Cardinality({i \in 1..Len(terms) : terms[i] = term})

\* number of documents holding the term
DocFreq(term, docs) ==
    Cardinality({i \in 1..Len(docs) : \E j \in 1..Len(docs[i]) : docs[i][j] = term})

\* total occurrences over the corpus, the key max_features ranks by
CorpusCount(term, docs) == SumSeq([i \in 1..Len(docs) |-> TermCount(term, docs[i])])

\* _limit_features: the max_features most frequent terms (earlier term on a tie)
CapFeatures(kept, docs) ==
    IF Cardinality(kept) <= max_features THEN kept
    ELSE CHOOSE S \in SUBSET kept :
            /\ Cardinality(S) = max_features
            /\ \A a \in S, b \in kept \ S :
                  \/ CorpusCount(a, docs) > CorpusCount(b, docs)
                  \/ CorpusCount(a, docs) = CorpusCount(b, docs) /\ StrLess(a, b)

\* the terms of the corpus that pass min_df and max_df
KeptTerms(all, docs, n_doc) ==
    {t \in all : LET df == DocFreq(t, docs)
                 IN df >= min_df /\ 100 * df <= max_df_percent * n_doc}

\* the outcome of the fit: a ValueError for no term at all, for max_df below
\* min_df, or for no term left after pruning; else the sorted vocabulary
VocabularyOf(all, capped, n_doc) ==
    IF all = {} \/ max_df_percent * n_doc < 100 * min_df \/ capped = {}
    THEN [ok |-> FALSE, vocabulary |-> <<>>]
    ELSE [ok |-> TRUE, vocabulary |-> SortedTerms(capped)]

LearnFromTerms(docs, all, n_doc) ==
    VocabularyOf(all, CapFeatures(KeptTerms(all, docs, n_doc), docs), n_doc)

LearnFromDocs(docs) ==
    LearnFromTerms(docs, UNION {Range(docs[i]) : i \in 1..Len(docs)}, Len(docs))

\* the vocabulary CountVectorizer.fit_transform learns from texts, or its ValueError
LearnVocabulary(texts) == LearnFromDocs([i \in 1..Len(texts) |-> Terms(texts[i])])

\* a VectorService before _fit_vectorizer ran: an unfitted vectorizer, no vocab_size attribute
NewService ==
    [fitted |-> FALSE, vocabulary |-> <<>>, tfidf_fitted |-> FALSE,
     has_vocab_size |-> FALSE, vocab_size |-> 0]

\* the vectorizer after fit learned v or raised.  A failed fit leaves vocabulary_
\* as it was; builds whose fit first replaces the idf transformer leave that one
\* unfitted.
AfterFit(s, v) ==
    IF v.ok
    THEN [ok |-> TRUE,
          svc |-> [s EXCEPT !.fitted = TRUE, !.vocabulary = v.vocabulary,
                            !.tfidf_fitted = TRUE]]
    ELSE [ok |-> FALSE,
          svc |-> [s EXCEPT !.tfidf_fitted = IF lib_resets_tfidf THEN FALSE ELSE @]]

\* self.vectorizer.fit(texts): [ok, svc]
vectorizer_fit(s, texts) == AfterFit(s, LearnVocabulary(texts))

\* self.vocab_size after the fit f of _fit_vectorizer: the vocabulary size, or
\* the default when the fit raised
SizeAfterFit(f) ==
    [f.svc EXCEPT !.has_vocab_size = TRUE,
                  !.vocab_size = IF f.ok THEN Len(f.svc.vocabulary) ELSE default_vocab_size]

\* VectorService._fit_vectorizer on the rows PolicyChunk.query.all() returned
fit_vectorizer(s, chunks, query_raises) ==
    IF query_raises
    THEN [s EXCEPT !.has_vocab_size = TRUE, !.vocab_size = default_vocab_size]
    ELSE IF chunks = <<>> THEN s
    ELSE SizeAfterFit(vectorizer_fit(s, [i \in 1..Len(chunks) |-> chunks[i].chunk_text]))

\* VectorService.__init__
VectorService(chunks, query_raises) == fit_vectorizer(NewService, chunks, query_raises)

\* A list of floats of length n, written without its runs of equal components:
\* components 1..Len(head) are head, those after head up to eps are 1e-10 (one
\* unit), the rest up to n are 0.0.
Vector(n, head, eps) == [n |-> n, head |-> head, eps |-> eps]

\* [0.0] * n
Zeros(n) == Vector(n, <<>>, 0)

\* embedding[i]
Component(v, i) ==
    IF i <= Len(v.head) THEN v.head[i] ELSE IF i <= v.eps THEN 1 ELSE 0

\* pad with zeros or truncate to length n
PadOrTruncate(v, n) ==
    Vector(n, SubSeq(v.head, 1, Min(Len(v.head), n)), Min(v.eps, n))

\* all(x == 0 for x in embedding)
AllZero(v) == v.eps <= Len(v.head) /\ \A i \in 1..Len(v.head) : v.head[i] = 0

\* vectorizer.transform([text]) as a dense row.  Components are term counts: the
\* idf factor and the L2 row normalisation rescale them by positive factors, which
\* leaves the length and the zero components as they are.
Transform(s, text) ==
    LET terms == Terms(text)
    IN Vector(Len(s.vocabulary),
              [i \in 1..Len(s.vocabulary) |-> TermCount(s.vocabulary[i], terms)], 0)

\* [x + 1e-10 for x in embedding] on an all-zero embedding: every component
\* becomes 1e-10
AddEpsilon(v) == Vector(v.n, <<>>, v.n)

\* the fit on first use: self.vocab_size follows the vocabulary when it succeeds
SizeOnFirstFit(f) ==
    IF f.ok
    THEN [f EXCEPT !.svc.has_vocab_size = TRUE, !.svc.vocab_size = Len(f.svc.vocabulary)]
    ELSE f

\* transform, reconcile the dimension, replace an all-zero vector; raises when
\* the fit raised, the idf transformer is unfitted or self.vocab_size is unset
EmbedFitted(f, text) ==
    IF ~f.ok \/ ~f.svc.tfidf_fitted \/ ~f.svc.has_vocab_size
    THEN [ok |-> FALSE, val |-> Zeros(0), svc |-> f.svc]
    ELSE [ok |-> TRUE,
          val |-> LET sized == PadOrTruncate(Transform(f.svc, text), f.svc.vocab_size)
                  IN IF AllZero(sized) THEN AddEpsilon(sized) ELSE sized,
          svc |-> f.svc]

\* VectorService.get_text_embedding(text): [ok, val, svc]; ok = FALSE when it raises
get_text_embedding(s, text) ==
    IF text.t # "str" \/ text.s = ""
    THEN [ok |-> s.has_vocab_size,
          val |-> Zeros(IF s.has_vocab_size THEN s.vocab_size ELSE 0),
          svc |-> s]
    ELSE IF s.fitted THEN EmbedFitted([ok |-> TRUE, svc |-> s], text.s)
    ELSE EmbedFitted(SizeOnFirstFit(vectorizer_fit(s, <<text.s>>)), text.s)

\* a policy id as Python holds it: the int, or str(int) as stage 2 passes it
PyInt(n) == [ty |-> "int", n |-> n]
PyStr(n) == [ty |-> "str", n |-> n]

NextChunkId(chunks) ==
    IF chunks = <<>> THEN 1
    ELSE 1 + (CHOOSE m \in {chunks[i].id : i \in 1..Len(chunks)} :
                 \A i \in 1..Len(chunks) : chunks[i].id <= m)

\* the PolicyChunk rows add_documents_to_db builds; the integer column takes the
\* number of either form of policy_id
NewChunkRows(chunks, documents, embeddings) ==
    [i \in 1..Len(documents) |->
        [id |-> NextChunkId(chunks) + i - 1,
         policy_id |-> documents[i].policy_id.n,
         document_source_filename |-> documents[i].document_source_filename,
         section_type |-> documents[i].section_type,
         chunk_text |-> documents[i].chunk_text,
         embedding |-> embeddings[i]]]

\* the rows added and committed unless an embedding or the commit raised
CommitBatch(s, chunks, documents, e, commit_raises) ==
    IF (\E i \in 1..Len(e) : ~e[i].ok) \/ commit_raises
    THEN [ok |-> FALSE, svc |-> s, chunks |-> chunks]
    ELSE [ok |-> TRUE, svc |-> s,
          chunks |-> chunks \o NewChunkRows(chunks, documents, [i \in 1..Len(e) |-> e[i].val])]

\* the loop over the documents after the fit f on their texts
EmbedBatch(f, chunks, documents, commit_raises) ==
    IF ~f.ok THEN [ok |-> FALSE, svc |-> f.svc, chunks |-> chunks]
    ELSE CommitBatch(f.svc, chunks, documents,
                     [i \in 1..Len(documents) |->
                         get_text_embedding(f.svc, Str(documents[i].chunk_text))],
                     commit_raises)

\* VectorService.add_documents_to_db(documents): [ok, svc, chunks]; on any exception
\* the session is rolled back and the exception re-raised (ok = FALSE)
add_documents_to_db(s, chunks, documents, commit_raises) ==
    EmbedBatch(vectorizer_fit(s, [i \in 1..Len(documents) |-> documents[i].chunk_text]),
               chunks, documents, commit_raises)

----------------------------------------------------------------------------
(* Retrieval Engine: VectorService.search_similar_chunks *)

\* np.dot of two vectors of one length: past both heads the components are
\* 1e-10 in both up to the shorter eps run, one unit of the product each
Dot(a, b) ==
    LET k == IF Len(a.head) > Len(b.head) THEN Len(a.head) ELSE Len(b.head)
        both == Min(a.eps, b.eps)
    IN SumSeq([i \in 1..k |-> Component(a, i) * Component(b, i)])
       + (IF both > k THEN both - k ELSE 0)

\* norm < 1e-10: the all-zero and the empty vector (a vector holding a term
\* weight or 1e-10 in any component has a norm of at least 1e-10)
ZeroNorm(v) == AllZero(v)

\* the column comparison of db_query.filter(getattr(PolicyChunk, key) == value)
RowMatches(row, filters) ==
    \A i \in 1..Len(filters) :
        CASE filters[i].k = "policy_id" -> row.policy_id = filters[i].v.n
          [] filters[i].k = "section_type" -> row.section_type = filters[i].v
          [] OTHER -> FALSE

\* chunk.policy_id != filters['policy_id'] as Python compares an int with the value
WrongPolicy(row, filters) ==
    \E i \in 1..Len(filters) :
        /\ filters[i].k = "policy_id"
        /\ ~(filters[i].v.ty = "int" /\ filters[i].v.n = row.policy_id)

\* cosine similarity of normalised vectors, kept as dot product and squared chunk
\* norm (the query norm is common to all chunks of one search)
SimGreater(a, b) == a.dot * a.dot * b.norm2 > b.dot * b.dot * a.norm2

\* the list left in the order the chunks were read
SortBySimilarity_Unsorted(items) == items

RECURSIVE SortBySimilarity(_)
\* list.sort(key=similarity, reverse=True): descending, equal keys in original order
SortBySimilarity(items) ==
    IF items = <<>> THEN <<>>
    ELSE LET best == CHOOSE i \in 1..Len(items) :
                        /\ \A j \in 1..Len(items) : ~SimGreater(items[j].sim, items[i].sim)
                        /\ \A j \in 1..(i - 1) : SimGreater(items[i].sim, items[j].sim)
         IN <<items[best]>>
            \o SortBySimilarity(SubSeq(items, 1, best - 1) \o SubSeq(items, best + 1, Len(items)))

\* re.search(label + r'\s*([^\n]+)', text) tried at the position p after the label:
\* \s* takes the longest whitespace run that still leaves a character other than a
\* newline to capture; the capture runs to the end of that line
CaptureAt(text, p) ==
    LET n == Len(text)
        ws == {L \in 0..(n - p + 1) : \A j \in p..(p + L - 1) : CharAt(text, j) \in Whitespace}
        ok == {L \in ws : p + L <= n /\ CharAt(text, p + L) # "\n"}
    IN IF ok = {} THEN [found |-> FALSE, value |-> ""]
       ELSE LET L == CHOOSE x \in ok : \A y \in ok : y <= x
                nl == FindFrom(text, "\n", p + L)
            IN [found |-> TRUE,
                value |-> Strip(SubSeq(text, p + L, IF nl = 0 THEN n ELSE nl - 1))]

RECURSIVE RegexFieldFrom(_, _, _)
RegexFieldFrom(text, label, from) ==
    LET at == FindFrom(text, label, from)
    IN IF at = 0 THEN [found |-> FALSE, value |-> ""]
       ELSE LET c == CaptureAt(text, at + Len(label))
            IN IF c.found THEN c ELSE RegexFieldFrom(text, label, at + 1)

\* match.group(1).strip() of re.search(r'<label>\s*([^\n]+)', text), if it matches
RegexField(text, label) == RegexFieldFrom(text, label, 1)

\* the coverage line once both labels are known to occur and were matched
CoverageLine(ct, lm, seen) ==
    IF ct.found /\ lm.found /\ ct.value \notin seen
    THEN [info |-> ct.value \o ": $" \o lm.value, seen |-> seen \cup {ct.value}]
    ELSE [info |-> "", seen |-> seen]

CoverageIn(chunk_text, lowered, seen) ==
    IF Contains(lowered, "coverage_type:") /\ Contains(lowered, "limit:")
    THEN CoverageLine(RegexField(chunk_text, "coverage_type:"),
                      RegexField(chunk_text, "limit:"), seen)
    ELSE [info |-> "", seen |-> seen]

\* the coverage line of one chunk under the "coverage limits" intent, given the
\* coverage types already reported: [info, seen]
CoverageInfo(chunk_text, seen) == CoverageIn(chunk_text, Lower(chunk_text), seen)

\* match.group(1).strip() if the label matched, else nothing
FieldOf(m) == IF m.found THEN m.value ELSE ""

\* the premium with its dollar sign
PremiumOf(m) ==
    IF ~m.found THEN "" ELSE IF StartsWith(m.value, "$") THEN m.value ELSE "$" \o m.value

\* the branch of the if/elif chain that query_lower selects
QueryIntent(query_lower) ==
    CASE Contains(query_lower, "who is the insured") \/ Contains(query_lower, "policyholder")
                -> "policyholder_name:"
      [] Contains(query_lower, "policy number") -> "policy_number:"
      [] Contains(query_lower, "total premium") -> "total_premium:"
      [] Contains(query_lower, "coverage limits") -> "coverage limits"
      [] Contains(query_lower, "deductibles") -> "deductibles"
      [] Contains(query_lower, "effective date") -> "effective_date:"
      [] Contains(query_lower, "property address") -> "property_address:"
      [] Contains(query_lower, "insurer name") -> "insurer_name:"
      [] OTHER -> ""

\* extracted_info for one chunk ("" stands for None and for an empty match, both
\* falsy).  Chunk texts of the model hold no "coverage_details: {" or
\* "deductibles: [" literal, so the two JSON branches find nothing.
ExtractInfo(intent, chunk_text, seen) ==
    CASE intent \in {"", "deductibles"} -> [info |-> "", seen |-> seen]
      [] intent = "coverage limits" -> CoverageInfo(chunk_text, seen)
      [] intent = "total_premium:"
            -> [info |-> PremiumOf(RegexField(chunk_text, intent)), seen |-> seen]
      [] OTHER -> [info |-> FieldOf(RegexField(chunk_text, intent)), seen |-> seen]

\* one entry of the returned list, if the chunk yielded extracted_info
ResultEntry(item, info) ==
    IF info = "" THEN <<>>
    ELSE <<[policy_id |-> item.chunk.policy_id,
            section_type |-> item.chunk.section_type,
            document_source_filename |-> item.chunk.document_source_filename,
            chunk_text |-> info,
            similarity |-> item.sim]>>

RECURSIVE ExtractResults(_, _, _)
ExtractFrom(intent, top, x) ==
    ResultEntry(Head(top), x.info) \o ExtractResults(intent, Tail(top), x.seen)

\* the loop over top_results building the returned list
ExtractResults(intent, top, seen) ==
    IF top = <<>> THEN <<>>
    ELSE ExtractFrom(intent, top, ExtractInfo(intent, Head(top).chunk.chunk_text, seen))

\* a query without a scope filter
NoFilters == <<>>

\* one (chunk, similarity) pair
Scored(row, q, sized) ==
    [chunk |-> row, sim |-> [dot |-> Dot(q, sized), norm2 |-> Dot(sized, sized)]]

\* the loop over the fetched chunks: reconcile the dimension, skip zero norms and
\* chunks of another policy, score the rest
ScoreChunks(s, rows, q, filters) ==
    LET kept == SelectSeq(rows, LAMBDA row :
                    /\ ~ZeroNorm(PadOrTruncate(row.embedding, s.vocab_size))
                    /\ ~WrongPolicy(row, filters))
    IN [i \in 1..Len(kept) |->
           Scored(kept[i], q, PadOrTruncate(kept[i].embedding, s.vocab_size))]

\* the same loop over every stored chunk, whatever the filters say
FetchAndScore_Unscoped(s, chunks, q, filters) == ScoreChunks(s, chunks, q, <<>>)

\* db_query.filter(...).all() followed by the loop over the fetched chunks
FetchAndScore(s, chunks, q, filters) ==
    ScoreChunks(s, SelectSeq(chunks, LAMBDA row : RowMatches(row, filters)), q, filters)

\* similarities.sort(...)[:top_k] and the extraction loop
TopResults(ranked, query, top_k) ==
    ExtractResults(QueryIntent(Lower(query)), SubSeq(ranked, 1, Min(top_k, Len(ranked))), {})

\* the search once the query is embedded as q
SearchEmbedded(q, chunks, query, top_k, filters) ==
    IF ~q.ok THEN [ok |-> FALSE, val |-> <<>>, svc |-> q.svc]
    ELSE IF ZeroNorm(q.val) THEN [ok |-> TRUE, val |-> <<>>, svc |-> q.svc]
    ELSE [ok |-> TRUE,
          val |-> TopResults(SortBySimilarity(FetchAndScore(q.svc, chunks, q.val, filters)),
                             query.s, top_k),
          svc |-> q.svc]

\* VectorService.search_similar_chunks(query, top_k, filters): [ok, val, svc]
search_similar_chunks(s, chunks, query, top_k, filters) ==
    SearchEmbedded(get_text_embedding(s, query), chunks, query, top_k, filters)

\* scripts/store_policy_chunks.py store_chunks_in_db: one row per chunk, committed
\* one by one; a chunk whose embedding raises is rolled back and skipped
RECURSIVE store_chunks_in_db(_, _, _)
store_chunks_in_db(s, chunks, todo) ==
    IF todo = <<>> THEN [svc |-> s, chunks |-> chunks]
    ELSE LET e == get_text_embedding(s, Str(Head(todo).chunk_text))
         IN store_chunks_in_db(e.svc,
                IF e.ok THEN chunks \o NewChunkRows(chunks, <<Head(todo)>>, <<e.val>>)
                ELSE chunks,
                Tail(todo))

----------------------------------------------------------------------------
(* Parts of the state a specification leaves untouched *)

VectorIdle ==
    /\ policy_chunks = <<>>
    /\ lib_resets_tfidf = FALSE
    /\ svc = NotRun
    /\ svc_call = NotRun

ChunkIdle ==
    /\ cj_data = <<>>
    /\ cj_ingest = NotRun
    /\ cj_store = NotRun

ChainIdle ==
    /\ upload = NotRun
    /\ temp_files = {}
    /\ broker = {}
    /\ worker = <<>>
    /\ returned = <<>>
    /\ stage_log = <<>>

TrackerIdle ==
    /\ processing_tasks = <<>>
    /\ celery_tasks = <<>>
    /\ task_log = <<>>
    /\ upload_reply = NotRun

StoreIdle ==
    /\ policies = <<>>
    /\ threads = <<>>
    /\ step = <<>>
    /\ query_call = NotRun
    /\ query_prev = NotRun

----------------------------------------------------------------------------
(* Inputs of the chunking harness *)

\* raw texts: absent, empty, blank, short, and around multiples of chunk_size
LongText(n) == SubSeq(Repeat("coverage a limit 250000 dwelling ", (n \div 33) + 1), 1, n)

RawTextInputs ==
    {None, Str(""), Str("  "), Str(" \n"), Str("policy text"),
     Str(LongText(chunk_size - 1)), Str(LongText(chunk_size)),
     Str(LongText(chunk_size + 1)), Str(LongText(2 * chunk_size + 500))}

ScalarInputs ==
    { <<>>,
      <<[k |-> "policy_number", v |-> Str("P1")]>>,
      <<[k |-> "policy_number", v |-> None], [k |-> "insurer_name", v |-> None]>>,
      <<[k |-> "policy_number", v |-> Str("P1")],
        [k |-> "insurer_name", v |-> None],
        [k |-> "policyholder_name", v |-> Str("Ann Lee")]>> }

CovA == <<[k |-> "coverage_type", v |-> Str("Coverage A")], [k |-> "limit", v |-> Str("250000.00")]>>
CovB == <<[k |-> "coverage_type", v |-> Str("Coverage B")], [k |-> "limit", v |-> None]>>
CovEmpty == <<[k |-> "coverage_type", v |-> None], [k |-> "limit", v |-> None]>>

CoverageInputs ==
    {None, ListV(<<>>), ListV(<<CovA>>), ListV(<<CovEmpty, CovA>>), ListV(<<CovA, CovEmpty, CovB>>)}

AltTextInputs == {None, Str("alt text")}

PolicyDataInputs ==
    { s \o <<[k |-> "coverage_details", v |-> c], [k |-> "raw_text", v |-> r]>>
        \o (IF a.t = "none" THEN <<>> ELSE <<[k |-> "text", v |-> a]>>) :
      s \in ScalarInputs, c \in CoverageInputs, r \in RawTextInputs, a \in AltTextInputs }

ChunkInit ==
    /\ cj_data \in PolicyDataInputs
    /\ cj_ingest = NotRun
    /\ cj_store = NotRun
    /\ VectorIdle
    /\ ChainIdle /\ policy_rows = <<>>
    /\ TrackerIdle
    /\ StoreIdle

ChunkIngest ==
    /\ cj_ingest = NotRun
    /\ cj_ingest' = ListV(chunk_policy_json_ingest(cj_data, "1", "policy.pdf"))
    /\ UNCHANGED <<cj_data, cj_store, vectorVars, chainVars, policy_rows, trackerVars, storeVars>>

ChunkStore ==
    /\ cj_store = NotRun
    /\ cj_store' = ListV(chunk_policy_json_store(cj_data, 1, "policy.pdf"))
    /\ UNCHANGED <<cj_data, cj_ingest, vectorVars, chainVars, policy_rows, trackerVars, storeVars>>

ChunkNext == ChunkIngest \/ ChunkStore

SpecChunk == ChunkInit /\ [][ChunkNext]_vars

----------------------------------------------------------------------------
(* The embedding store and retrieval engine as a state machine: one chunk    *)
(* table, one VectorService object at a time, calls made on it one by one.   *)

MaxStoredChunks == 7

PolicyA ==
    <<[k |-> "policy_number", v |-> Str("P1")],
      [k |-> "policyholder_name", v |-> Str("Ann Lee")],
      [k |-> "coverage_details",
       v |-> ListV(<<CovA, <<[k |-> "coverage_type", v |-> Str("Coverage B")],
                             [k |-> "limit", v |-> Str("100000.00")]>> >>)],
      [k |-> "raw_text", v |-> Str("Coverage A limit 250000 dwelling")]>>

PolicyB ==
    <<[k |-> "policy_number", v |-> Str("P2")],
      [k |-> "policyholder_name", v |-> Str("Bob Ray")],
      [k |-> "coverage_details", v |-> ListV(<<CovA>>)],
      [k |-> "raw_text", v |-> Str("policy_number: P2 hail")]>>

\* the document batches callers hand to add_documents_to_db
DocumentBatches ==
    { chunk_policy_json_ingest(PolicyA, PyStr(1), "a.pdf"),
      chunk_policy_json_ingest(PolicyB, PyStr(2), "b.pdf"),
      <<>> }

EmbedTexts == {None, Str(""), Str("coverage limit"), Str("hail")}

Queries ==
    {Str(""), Str("What is the policy number?"), Str("coverage limits")}

ScopeFilters ==
    {NoFilters} \cup { <<[k |-> "policy_id", v |-> p]>> : p \in {PyInt(1), PyStr(1)} }

TopKs == {1, 5}

VectorInit ==
    /\ policy_chunks = <<>>
    /\ lib_resets_tfidf \in BOOLEAN
    /\ svc = NotRun
    /\ svc_call = NotRun
    /\ ChunkIdle
    /\ ChainIdle /\ policy_rows = <<>>
    /\ TrackerIdle
    /\ StoreIdle

\* vector_service = VectorService()
Construct ==
    \E query_raises \in BOOLEAN :
        /\ svc' = VectorService(policy_chunks, query_raises)
        /\ svc_call' = [op |-> "init"]
        /\ UNCHANGED <<policy_chunks, lib_resets_tfidf, chunkVars, chainVars, policy_rows, trackerVars, storeVars>>

Embed ==
    \E text \in EmbedTexts :
        /\ svc # NotRun
        /\ LET r == get_text_embedding(svc, text)
           IN /\ svc' = r.svc
              /\ svc_call' = [op |-> "embed", text |-> text, ok |-> r.ok, val |-> r.val]
        /\ UNCHANGED <<policy_chunks, lib_resets_tfidf, chunkVars, chainVars, policy_rows, trackerVars, storeVars>>

AddDocuments ==
    \E documents \in DocumentBatches, commit_raises \in BOOLEAN :
        /\ svc # NotRun
        /\ Len(policy_chunks) + Len(documents) <= MaxStoredChunks
        /\ LET r == add_documents_to_db(svc, policy_chunks, documents, commit_raises)
           IN /\ svc' = r.svc
              /\ policy_chunks' = r.chunks
              /\ svc_call' = [op |-> "add", ok |-> r.ok, n |-> Len(documents)]
        /\ UNCHANGED <<lib_resets_tfidf, chunkVars, chainVars, policy_rows, trackerVars, storeVars>>

Search ==
    \E query \in Queries, top_k \in TopKs, filters \in ScopeFilters :
        /\ svc # NotRun
        /\ LET r == search_similar_chunks(svc, policy_chunks, query, top_k, filters)
           IN /\ svc' = r.svc
              /\ svc_call' = [op |-> "search", query |-> query, top_k |-> top_k,
                              filters |-> filters, ok |-> r.ok, val |-> r.val]
        /\ UNCHANGED <<policy_chunks, lib_resets_tfidf, chunkVars, chainVars, policy_rows, trackerVars, storeVars>>

VectorNext == Construct \/ Embed \/ AddDocuments \/ Search

SpecVector == VectorInit /\ [][VectorNext]_vars

----------------------------------------------------------------------------
(* Calls in progress on one VectorService: add_documents_to_db refitting the  *)
(* vectorizer while get_text_embedding runs, statement by statement.  The     *)
(* class holds no lock, and add_documents_to_db itself calls                  *)
(* get_text_embedding after its refit.                                        *)

NoCall == [pc |-> "idle"]

\* a chunk store as an earlier ingestion left it: the chunks of policy P1
SeededChunks ==
    add_documents_to_db(VectorService(<<>>, TRUE), <<>>,
                        chunk_policy_json_ingest(PolicyA, PyStr(1), "a.pdf"), FALSE).chunks

RefitStores == {<<>>, SeededChunks}

\* what a get_text_embedding call read of the service: the vocabulary it
\* transformed with and the vocab_size it sized the embedding to
Observation(vocabulary, vocab_size) == [vocabulary |-> vocabulary, vocab_size |-> vocab_size]

\* a call that returned or raised
Returned(ok, seen) == [pc |-> "idle", ok |-> ok, seen |-> seen]

RefitInit ==
    /\ policy_chunks \in RefitStores
    /\ lib_resets_tfidf \in BOOLEAN
    /\ \E query_raises \in BOOLEAN : svc = VectorService(policy_chunks, query_raises)
    /\ svc_call = NotRun
    /\ threads = [writer |-> NoCall, reader |-> NoCall]
    /\ policies = <<>>
    /\ step = <<>>
    /\ query_call = NotRun
    /\ query_prev = NotRun
    /\ policy_rows = <<>>
    /\ ChunkIdle
    /\ ChainIdle
    /\ TrackerIdle

\* whether the reader is between its first and its last statement
Reading == threads.reader.pc # "idle"

\* add_documents_to_db, lines 89-92: self.vectorizer.fit(texts) on the
\* vectorizer object every caller reaches through self.vectorizer
AddFit ==
    \E documents \in DocumentBatches :
        /\ threads.writer.pc = "idle"
        /\ Len(policy_chunks) + Len(documents) <= MaxStoredChunks
        /\ LET f == vectorizer_fit(svc, [i \in 1..Len(documents) |-> documents[i].chunk_text])
           IN /\ svc' = f.svc
              /\ threads' =
                   [writer |-> IF f.ok
                               THEN [pc |-> "embed", documents |-> documents, i |-> 0,
                                     embeddings |-> <<>>, seen |-> <<>>]
                               ELSE Returned(FALSE, <<>>),
                    reader |-> IF Reading
                               THEN [threads.reader EXCEPT
                                       !.mutated = @ \/ f.svc.vocabulary # svc.vocabulary,
                                       !.complete = @ \cup {f.svc.vocabulary}]
                               ELSE threads.reader]
        /\ UNCHANGED <<policy_chunks, lib_resets_tfidf, svc_call, policies, step, query_call, query_prev, policy_rows,
                       chunkVars, chainVars, trackerVars>>

\* add_documents_to_db, lines 96-105: the embedding of the next document
AddEmbed ==
    /\ threads.writer.pc = "embed"
    /\ threads.writer.i < Len(threads.writer.documents)
    /\ LET e == get_text_embedding(svc,
                    Str(threads.writer.documents[threads.writer.i + 1].chunk_text))
       IN /\ svc' = e.svc
          /\ threads' = [threads EXCEPT !.writer =
                IF e.ok
                THEN [@ EXCEPT !.i = @ + 1,
                               !.embeddings = Append(@, e.val),
                               !.seen = Append(@, Observation(svc.vocabulary, svc.vocab_size))]
                ELSE Returned(FALSE, @.seen)]
    /\ UNCHANGED <<policy_chunks, lib_resets_tfidf, svc_call, policies, step, query_call, query_prev, policy_rows,
                   chunkVars, chainVars, trackerVars>>

\* add_documents_to_db, lines 107-113: the commit, or the rollback when it raises
AddCommit ==
    \E commit_raises \in BOOLEAN :
        /\ threads.writer.pc = "embed"
        /\ threads.writer.i = Len(threads.writer.documents)
        /\ policy_chunks' =
              IF commit_raises THEN policy_chunks
              ELSE policy_chunks \o NewChunkRows(policy_chunks, threads.writer.documents,
                                                 threads.writer.embeddings)
        /\ threads' = [threads EXCEPT !.writer = Returned(~commit_raises, @.seen)]
        /\ UNCHANGED <<lib_resets_tfidf, svc, svc_call, policies, step, query_call, query_prev, policy_rows,
                       chunkVars, chainVars, trackerVars>>

\* get_text_embedding, lines 51-59: the text check and the fit on first use
ReadBegin ==
    \E text \in EmbedTexts :
        /\ threads.reader.pc = "idle"
        /\ IF text.t # "str" \/ text.s = ""
           THEN /\ threads' = [threads EXCEPT !.reader = Returned(svc.has_vocab_size, <<>>)]
                /\ svc' = svc
           ELSE LET f == IF svc.fitted THEN [ok |-> TRUE, svc |-> svc]
                         ELSE SizeOnFirstFit(vectorizer_fit(svc, <<text.s>>))
                IN /\ svc' = f.svc
                   /\ threads' = [threads EXCEPT !.reader =
                         IF f.ok
                         THEN [pc |-> "transform", text |-> text.s, mutated |-> FALSE,
                               complete |-> {f.svc.vocabulary}]
                         ELSE Returned(FALSE, <<>>)]
        /\ UNCHANGED <<policy_chunks, lib_resets_tfidf, svc_call, policies, step, query_call, query_prev, policy_rows,
                       chunkVars, chainVars, trackerVars>>

\* get_text_embedding, lines 62-63: self.vectorizer.transform([text])
ReadTransform ==
    /\ threads.reader.pc = "transform"
    /\ threads' = [threads EXCEPT !.reader =
          IF svc.tfidf_fitted
          THEN [pc |-> "size", embedding |-> Transform(svc, @.text),
                vocabulary |-> svc.vocabulary, mutated |-> @.mutated, complete |-> @.complete]
          ELSE Returned(FALSE, <<>>)]
    /\ UNCHANGED <<policy_chunks, lib_resets_tfidf, svc, svc_call, policies, step, query_call, query_prev, policy_rows,
                   chunkVars, chainVars, trackerVars>>

\* get_text_embedding, lines 66-80: the embedding is padded or truncated to
\* self.vocab_size, an all-zero one is replaced, and the call returns
ReadSize ==
    /\ threads.reader.pc = "size"
    /\ threads' = [threads EXCEPT !.reader =
          IF svc.has_vocab_size
          THEN [pc |-> "idle", ok |-> TRUE,
                val |-> LET sized == PadOrTruncate(@.embedding, svc.vocab_size)
                        IN IF AllZero(sized) THEN AddEpsilon(sized) ELSE sized,
                seen |-> <<Observation(@.vocabulary, svc.vocab_size)>>,
                mutated |-> @.mutated, complete |-> @.complete]
          ELSE Returned(FALSE, <<>>)]
    /\ UNCHANGED <<policy_chunks, lib_resets_tfidf, svc, svc_call, policies, step, query_call, query_prev, policy_rows,
                   chunkVars, chainVars, trackerVars>>

RefitNext ==
    \/ AddFit
    \/ AddEmbed
    \/ AddCommit
    \/ ReadBegin
    \/ ReadTransform
    \/ ReadSize

SpecRefit == RefitInit /\ [][RefitNext]_vars

----------------------------------------------------------------------------
(* The four-stage chain: pipeline_tasks.py *)

\* the tasks of the chain, in the order chain(...) lists them
ChainTasks ==
    <<"process_documents_step", "extract_policy_numbers_from_docs",
      "vector_processing_step", "extract_policy_numbers_from_vector",
      "store_chunks_step", "extract_policy_numbers_from_chunks",
      "update_context_step">>

StageTasks ==
    {"process_documents_step", "vector_processing_step", "store_chunks_step",
     "update_context_step"}

StagePositions == {k \in 1..Len(ChainTasks) : ChainTasks[k] \in StageTasks}

\* the columns of processed_policy_data that stages 2 and 3 copy into policy_data
PolicyColumns ==
    <<"policy_number", "insurer_name", "policyholder_name", "property_address",
      "effective_date", "expiration_date", "total_premium", "coverage_details", "raw_text">>

\* structured data without a policy number
NoNumberData == <<[k |-> "insurer_name", v |-> Str("Acme Mutual")]>>

\* InsuranceDocumentProcessorService.process_document on the bytes of a file; what
\* the extraction yields is a property of the document uploaded
process_document(file_path) ==
    CASE file_path = "a.pdf" ->
            [status |-> "success", message |-> "Document processed successfully", data |-> PolicyA]
      [] file_path = "b.pdf" ->
            [status |-> "success", message |-> "Document processed successfully", data |-> PolicyB]
      [] file_path = "n.pdf" ->
            [status |-> "success", message |-> "Document processed successfully", data |-> NoNumberData]
      [] OTHER ->
            [status |-> "error", message |-> "Error processing document: no text"]

\* the entry process_documents_step appends for the result of process_document
DocumentEntry(file_path, result) ==
    IF result.status = "success"
    THEN [file_path |-> file_path, status |-> "success",
          policy_number |-> DictGet(result.data, "policy_number"), data |-> result.data]
    ELSE [file_path |-> file_path, status |-> "error", error |-> result.message]

FileError(file_path, error) == [file_path |-> file_path, status |-> "error", error |-> error]

PolicyError(policy_number, error) ==
    [policy_number |-> policy_number, status |-> "error", error |-> error]

\* an item handler that drops the exception without recording it
ItemExcept_Swallow(results, entry) == results

\* except Exception as e: results.append({..., 'status': 'error', 'error': str(e)})
ItemExcept(results, entry) == Append(results, entry)

\* self.update_state(...) at the end of the loop body, after the item's entry was
\* appended: when it raises, the handler of the loop body runs as for any exception
UpdateProgress(results, error_entry, update_state_raises) ==
    IF update_state_raises THEN ItemExcept(results, error_entry) ELSE results

\* one iteration of the loop of process_documents_step; open() raises for a file
\* that is not there
process_documents_item(results, file_path, files, raises, update_state_raises) ==
    IF file_path \notin files \/ raises
    THEN ItemExcept(results, FileError(file_path, "exception"))
    ELSE UpdateProgress(Append(results, DocumentEntry(file_path, process_document(file_path))),
                        FileError(file_path, "exception"), update_state_raises)

\* ProcessedPolicyData.query.filter_by(policy_number=...).first() finds a row
HasPolicy(rows, policy_number) ==
    \E i \in 1..Len(rows) : rows[i].policy_number = policy_number

FirstPolicy(rows, policy_number) ==
    rows[CHOOSE i \in 1..Len(rows) :
            /\ rows[i].policy_number = policy_number
            /\ \A j \in 1..(i - 1) : rows[j].policy_number # policy_number]

\* the policy_data dict stages 2 and 3 build from the columns of a row
RowPolicyData(row) ==
    [i \in 1..Len(PolicyColumns) |->
        [k |-> PolicyColumns[i],
         v |-> IF PolicyColumns[i] = "policy_number" THEN row.policy_number
               ELSE DictGet(row.data, PolicyColumns[i])]]

ChunksEntry(policy_number, chunks) ==
    [policy_number |-> policy_number, status |-> "success", chunks_count |-> Len(chunks)]

\* one iteration of the loop of vector_processing_step; raises stands for an
\* exception of the query, of get_text_embedding or of add_documents_to_db
vector_processing_item(results, policy_number, rows, raises, update_state_raises) ==
    IF raises THEN ItemExcept(results, PolicyError(policy_number, "exception"))
    ELSE IF ~HasPolicy(rows, policy_number)
    THEN Append(results, PolicyError(policy_number, "Policy not found in database"))
    ELSE UpdateProgress(
            Append(results,
                   ChunksEntry(policy_number,
                       chunk_policy_json_ingest(RowPolicyData(FirstPolicy(rows, policy_number)),
                           PyStr(FirstPolicy(rows, policy_number).id),
                           FirstPolicy(rows, policy_number).original_document_gcs_path))),
            PolicyError(policy_number, "exception"), update_state_raises)

\* one iteration of the loop of store_chunks_step; raises stands for an exception
\* of the query, of get_or_create_policy, of get_text_embedding or of the commit
store_chunks_item(results, policy_number, rows, raises, update_state_raises) ==
    IF raises THEN ItemExcept(results, PolicyError(policy_number, "exception"))
    ELSE IF ~HasPolicy(rows, policy_number)
    THEN Append(results, PolicyError(policy_number, "Policy not found in database"))
    ELSE UpdateProgress(
            Append(results,
                   ChunksEntry(policy_number,
                       chunk_policy_json_store(RowPolicyData(FirstPolicy(rows, policy_number)),
                           FirstPolicy(rows, policy_number).id,
                           FirstPolicy(rows, policy_number).original_document_gcs_path))),
            PolicyError(policy_number, "exception"), update_state_raises)

\* the entry update_context_step appends; success is False when the update of the
\* policy record raised and was rolled back
ContextEntry(policy_number, row, success) ==
    [policy_number |-> policy_number,
     status |-> IF success THEN "success" ELSE "error",
     roof_age |-> None,
     renewal_date |-> DictGet(row.data, "expiration_date"),
     message |-> "Basic context updated. Use interactive update for full customization."]

\* one iteration of the loop of update_context_step (no invoice paths); raises
\* stands for an exception of the query or of the rollback, commit_raises for one
\* the handler around the update of the policy record catches
update_context_item(results, policy_number, rows, raises, commit_raises, update_state_raises) ==
    IF raises THEN ItemExcept(results, PolicyError(policy_number, "exception"))
    ELSE IF ~HasPolicy(rows, policy_number)
    THEN Append(results, PolicyError(policy_number, "Policy not found in database"))
    ELSE UpdateProgress(
            Append(results, ContextEntry(policy_number, FirstPolicy(rows, policy_number),
                                         ~commit_raises)),
            PolicyError(policy_number, "exception"), update_state_raises)

\* the loop body of the stage task named task
StageItemResults(task, results, item, files, rows, raises, commit_raises, update_state_raises) ==
    CASE task = "process_documents_step" ->
            process_documents_item(results, item, files, raises, update_state_raises)
      [] task = "vector_processing_step" ->
            vector_processing_item(results, item, rows, raises, update_state_raises)
      [] task = "store_chunks_step" ->
            store_chunks_item(results, item, rows, raises, update_state_raises)
      [] task = "update_context_step" ->
            update_context_item(results, item, rows, raises, commit_raises, update_state_raises)

\* whether the loop body raised an exception: the update of the policy record
\* and update_state are reached only for a policy that was found
ExceptionRaised(task, item, files, rows, raises, commit_raises, update_state_raises) ==
    CASE task = "process_documents_step" ->
            item \notin files \/ raises \/ update_state_raises
      [] task = "update_context_step" ->
            raises \/ (HasPolicy(rows, item) /\ (commit_raises \/ update_state_raises))
      [] OTHER ->
            raises \/ (HasPolicy(rows, item) /\ update_state_raises)

\* r.get('status') == 'success'
IsSuccess(r) == "status" \in DOMAIN r /\ r.status = "success"

\* r.get('policy_number')
PolicyNumberOf(r) == IF "policy_number" \in DOMAIN r THEN r.policy_number ELSE None

\* a stage that reports a batch without results as a failure
StageResult_EmptyIsError(results, total_count, failed) ==
    IF failed \/ results = <<>> THEN [status |-> "error", error |-> "exception"]
    ELSE [status |-> "success",
          results |-> results,
          successful_count |-> Len(SelectSeq(results, IsSuccess)),
          total_count |-> total_count]

\* what a stage task returns after its loop, or from its outer handler
StageResult(results, total_count, failed) ==
    IF failed THEN [status |-> "error", error |-> "exception"]
    ELSE [status |-> "success",
          results |-> results,
          successful_count |-> Len(SelectSeq(results, IsSuccess)),
          total_count |-> total_count]

\* [r['policy_number'] for r in results if r.get('status') == 'success' and r.get('policy_number')]
SuccessfulPolicies(results) ==
    LET kept == SelectSeq(results, LAMBDA r : IsSuccess(r) /\ Truthy(PolicyNumberOf(r)))
    IN [i \in 1..Len(kept) |-> kept[i].policy_number]

\* an extractor that hands on the policy number of every entry that has one
extract_policy_numbers_from_vector_AnyStatus(result) ==
    IF result.status = "success"
    THEN LET kept == SelectSeq(result.results, LAMBDA r : Truthy(PolicyNumberOf(r)))
         IN [i \in 1..Len(kept) |-> kept[i].policy_number]
    ELSE <<>>

extract_policy_numbers_from_docs(result) ==
    IF result.status = "success" THEN SuccessfulPolicies(result.results) ELSE <<>>

extract_policy_numbers_from_vector(result) ==
    IF result.status = "success" THEN SuccessfulPolicies(result.results) ELSE <<>>

extract_policy_numbers_from_chunks(result) ==
    IF result.status = "success" THEN SuccessfulPolicies(result.results) ELSE <<>>

\* the extractor task named task
ExtractResult(task, result) ==
    CASE task = "extract_policy_numbers_from_docs" -> extract_policy_numbers_from_docs(result)
      [] task = "extract_policy_numbers_from_vector" -> extract_policy_numbers_from_vector(result)
      [] task = "extract_policy_numbers_from_chunks" -> extract_policy_numbers_from_chunks(result)

----------------------------------------------------------------------------
(* Celery: broker messages, workers, the chain; routes/pipeline_routes.py *)

NumWorkers == 2
Workers == 1..NumWorkers

Idle == [task |-> "idle"]
NotDone == [done |-> FALSE]
Done(value) == [done |-> TRUE, value |-> value]

\* a task message: the chain position it belongs to and the argument it carries
Message(pos, args) == [pos |-> pos, args |-> args]

\* a chain whose links are all sent to the broker at once
apply_async_AllAtOnce(file_paths) ==
    {Message(1, file_paths)}
    \cup {Message(k, <<>>) : k \in StagePositions \ {1}}
    \cup {Message(k, [status |-> "error", error |-> "no result"]) :
              k \in (1..Len(ChainTasks)) \ StagePositions}

\* pipeline_chain.apply_async(): the first link goes to the broker
apply_async(file_paths) == {Message(1, file_paths)}

\* the link Celery sends once the task at position pos has returned result
NextLink(pos, result) ==
    IF pos < Len(ChainTasks) THEN {Message(pos + 1, result)} ELSE {}

\* the upload batches of the model: none, one file, a document without a policy
\* number followed by a good one, and three files of which the second fails
UploadBatches ==
    {<<>>, <<"a.pdf">>, <<"n.pdf", "a.pdf">>, <<"a.pdf", "x.pdf", "b.pdf">>}

\* rows of processed_policy_data as earlier uploads left them
RowA == [id |-> 1, policy_number |-> Str("P1"), data |-> PolicyA,
         original_document_gcs_path |-> "a.pdf"]
RowB == [id |-> 2, policy_number |-> Str("P2"), data |-> PolicyB,
         original_document_gcs_path |-> "b.pdf"]

PolicyTables == {<<>>, <<RowA>>, <<RowA, RowB>>}

\* the entry the synchronous fallback appends for one file
FallbackEntry(file_path, raises) ==
    IF raises THEN [error |-> "Failed to process " \o file_path \o ": exception"]
    ELSE process_document(file_path)

\* the response of upload_and_process
UploadResponse(file_paths, celery_raises, faults) ==
    IF file_paths = <<>> THEN [code |-> 400, error |-> "No files selected"]
    ELSE IF ~celery_raises
    THEN [code |-> 202, task_id |-> 0, status |-> "started"]
    ELSE [code |-> 200, task_id |-> "local_processing", status |-> "completed",
          results |-> [i \in 1..Len(file_paths) |-> FallbackEntry(file_paths[i], faults[i])]]

ChainInit ==
    /\ upload = [phase |-> "idle", file_paths |-> <<>>, response |-> NotRun]
    /\ temp_files = {}
    /\ policy_rows \in PolicyTables
    /\ broker = {}
    /\ worker = [w \in Workers |-> Idle]
    /\ returned = [k \in 0..Len(ChainTasks) |-> NotDone]
    /\ stage_log = [k \in StagePositions |-> [attempted |-> {}, raised |-> {}]]
    /\ ChunkIdle
    /\ VectorIdle
    /\ TrackerIdle
    /\ StoreIdle

\* upload_and_process up to its return statement: the files are saved in the
\* temporary directory, run_chained_pipeline is sent to the broker or, when that
\* raises, the files are processed in the request
UploadAndProcess ==
    \E file_paths \in UploadBatches, celery_raises \in BOOLEAN :
      \E faults \in [1..Len(file_paths) -> BOOLEAN] :
        /\ upload.phase = "idle"
        /\ upload' = [phase |-> IF file_paths = <<>> THEN "responded" ELSE "in_temp_dir",
                      file_paths |-> file_paths,
                      response |-> UploadResponse(file_paths, celery_raises, faults)]
        /\ temp_files' = Range(file_paths)
        /\ broker' = IF file_paths # <<>> /\ ~celery_raises
                     THEN broker \cup {Message(0, file_paths)} ELSE broker
        /\ UNCHANGED <<policy_rows, worker, returned, stage_log,
                       chunkVars, vectorVars, trackerVars, storeVars>>

\* the handler leaves the with-block of the temporary directory and responds
LeaveTempDir ==
    /\ upload.phase = "in_temp_dir"
    /\ upload' = [upload EXCEPT !.phase = "responded"]
    /\ temp_files' = {}
    /\ UNCHANGED <<policy_rows, broker, worker, returned, stage_log,
                   chunkVars, vectorVars, trackerVars, storeVars>>

\* a worker runs run_chained_pipeline
RunChainedPipeline(w) ==
    \E m \in broker, chain_raises \in BOOLEAN :
        /\ worker[w] = Idle
        /\ m.pos = 0
        /\ broker' = (broker \ {m}) \cup (IF chain_raises THEN {} ELSE apply_async(m.args))
        /\ returned' = [returned EXCEPT ![0] =
                          Done(IF chain_raises THEN [status |-> "error", error |-> "exception"]
                               ELSE [status |-> "started", task_id |-> Len(ChainTasks)])]
        /\ UNCHANGED <<upload, temp_files, policy_rows, worker, stage_log,
                       chunkVars, vectorVars, trackerVars, storeVars>>

\* a worker takes a stage task and runs it up to its loop; start_raises stands for
\* an exception of the first update_state or of create_app
StageStart(w) ==
    \E m \in broker, start_raises \in BOOLEAN :
        /\ worker[w] = Idle
        /\ m.pos \in StagePositions
        /\ broker' = broker \ {m}
        /\ worker' = [worker EXCEPT ![w] =
                         [task |-> ChainTasks[m.pos], pos |-> m.pos, items |-> m.args,
                          i |-> 0, results |-> <<>>, failed |-> start_raises]]
        /\ stage_log' = [stage_log EXCEPT ![m.pos] = [attempted |-> {}, raised |-> {}]]
        /\ UNCHANGED <<upload, temp_files, policy_rows, returned,
                       chunkVars, vectorVars, trackerVars, storeVars>>

\* one iteration of the loop of the stage task a worker is running
StageItem(w) ==
    \E raises \in BOOLEAN, commit_raises \in BOOLEAN, update_state_raises \in BOOLEAN :
        /\ worker[w] # Idle
        /\ ~worker[w].failed
        /\ worker[w].i < Len(worker[w].items)
        /\ worker' = [worker EXCEPT
              ![w].i = @ + 1,
              ![w].results = StageItemResults(worker[w].task, @,
                                 worker[w].items[worker[w].i + 1], temp_files, policy_rows,
                                 raises, commit_raises, update_state_raises)]
        /\ stage_log' = [stage_log EXCEPT
              ![worker[w].pos].attempted = @ \cup {worker[w].i + 1},
              ![worker[w].pos].raised =
                  IF ExceptionRaised(worker[w].task, worker[w].items[worker[w].i + 1],
                                     temp_files, policy_rows,
                                     raises, commit_raises, update_state_raises)
                  THEN @ \cup {worker[w].i + 1} ELSE @]
        /\ UNCHANGED <<upload, temp_files, policy_rows, broker, returned,
                       chunkVars, vectorVars, trackerVars, storeVars>>

\* the stage task returns; Celery stores the result and sends the next link
StageReturn(w) ==
    /\ worker[w] # Idle
    /\ worker[w].failed \/ worker[w].i = Len(worker[w].items)
    /\ returned' = [returned EXCEPT ![worker[w].pos] =
                       Done(StageResult(worker[w].results, Len(worker[w].items),
                                        worker[w].failed))]
    /\ broker' = broker \cup NextLink(worker[w].pos,
                     StageResult(worker[w].results, Len(worker[w].items), worker[w].failed))
    /\ worker' = [worker EXCEPT ![w] = Idle]
    /\ UNCHANGED <<upload, temp_files, policy_rows, stage_log,
                   chunkVars, vectorVars, trackerVars, storeVars>>

\* a worker runs one of the extract_policy_numbers tasks
Extract(w) ==
    \E m \in broker :
        /\ worker[w] = Idle
        /\ m.pos \in (1..Len(ChainTasks)) \ StagePositions
        /\ returned' = [returned EXCEPT ![m.pos] = Done(ExtractResult(ChainTasks[m.pos], m.args))]
        /\ broker' = (broker \ {m}) \cup NextLink(m.pos, ExtractResult(ChainTasks[m.pos], m.args))
        /\ UNCHANGED <<upload, temp_files, policy_rows, worker, stage_log,
                       chunkVars, vectorVars, trackerVars, storeVars>>

ChainNext ==
    \/ UploadAndProcess
    \/ LeaveTempDir
    \/ \E w \in Workers : RunChainedPipeline(w)
    \/ \E w \in Workers : StageStart(w)
    \/ \E w \in Workers : StageItem(w)
    \/ \E w \in Workers : StageReturn(w)
    \/ \E w \in Workers : Extract(w)

SpecChain == ChainInit /\ [][ChainNext]_vars

----------------------------------------------------------------------------
(* One stage called on its own: run_pipeline_step *)

\* the argument lists run_pipeline_step hands a stage; the empty list is the
\* default of kwargs.get
StepArgs(task) ==
    IF task = "process_documents_step"
    THEN {<<>>, <<"a.pdf">>}
    ELSE {<<>>, <<Str("P1")>>}

\* the files on disk when a stage is called on its own
StepFiles == {{}, {"a.pdf"}}

StepInit ==
    /\ upload = NotRun
    /\ temp_files \in StepFiles
    /\ policy_rows \in {<<>>, <<RowA>>}
    /\ broker = {}
    /\ worker = [w \in Workers |-> Idle]
    /\ returned = <<>>
    /\ stage_log = [k \in StagePositions |-> [attempted |-> {}, raised |-> {}]]
    /\ step = [k \in StagePositions |-> NotRun]
    /\ query_call = NotRun
    /\ query_prev = NotRun
    /\ policies = <<>>
    /\ threads = <<>>
    /\ ChunkIdle
    /\ VectorIdle
    /\ TrackerIdle

\* run_pipeline_step(step_name, **kwargs) up to .get(): the stage is sent to the
\* broker unless delay raises
RunPipelineStep ==
    \E k \in StagePositions, delay_raises \in BOOLEAN :
      \E args \in StepArgs(ChainTasks[k]) :
        /\ broker = {}
        /\ \A w \in Workers : worker[w] = Idle
        /\ step' = [step EXCEPT ![k] = IF delay_raises THEN NotRun
                                       ELSE [phase |-> "sent", args |-> args]]
        /\ broker' = IF delay_raises THEN broker ELSE {Message(k, args)}
        /\ UNCHANGED <<upload, temp_files, policy_rows, worker, returned, stage_log,
                       policies, threads, query_call, query_prev,
                   chunkVars, vectorVars, trackerVars>>

\* the stage task called on its own returns: its result goes to the caller and
\* no link follows
StepReturn(w) ==
    /\ worker[w] # Idle
    /\ worker[w].failed \/ worker[w].i = Len(worker[w].items)
    /\ step' = [step EXCEPT ![worker[w].pos] =
                   [phase |-> "returned", args |-> worker[w].items,
                    set_up_raised |-> worker[w].failed,
                    result |-> StageResult(worker[w].results, Len(worker[w].items),
                                           worker[w].failed)]]
    /\ worker' = [worker EXCEPT ![w] = Idle]
    /\ UNCHANGED <<upload, temp_files, policy_rows, broker, returned, stage_log,
                   policies, threads, query_call, query_prev,
                   chunkVars, vectorVars, trackerVars>>

StepNext ==
    \/ RunPipelineStep
    \/ \E w \in Workers : StageStart(w)
    \/ \E w \in Workers : StageItem(w)
    \/ \E w \in Workers : StepReturn(w)

SpecStep == StepInit /\ [][StepNext]_vars

----------------------------------------------------------------------------
(* What stages 2 and 3 persist: policies and policy_chunks *)

RECURSIVE LastSlash(_, _)
\* the position of the last "/" of path at or before i, 0 when there is none
LastSlash(path, i) ==
    IF i = 0 THEN 0 ELSE IF CharAt(path, i) = "/" THEN i ELSE LastSlash(path, i - 1)

\* os.path.basename
Basename(path) == SubSeq(path, LastSlash(path, Len(path)) + 1, Len(path))

\* Policy.query.filter_by(document_source_filename=...).first() finds a row
HasPolicyRecord(pols, filename) ==
    \E i \in 1..Len(pols) : pols[i].document_source_filename = filename

NextPolicyId(pols) ==
    IF pols = <<>> THEN 1
    ELSE 1 + (CHOOSE m \in {pols[i].id : i \in 1..Len(pols)} :
                 \A i \in 1..Len(pols) : pols[i].id <= m)

\* the policies table after get_or_create_policy(processed_policy)
PoliciesAfterGetOrCreate(pols, filename) ==
    IF HasPolicyRecord(pols, filename) THEN pols
    ELSE Append(pols, [id |-> NextPolicyId(pols), document_source_filename |-> filename])

\* the Policy get_or_create_policy returns
get_or_create_policy(pols, filename) ==
    LET after == PoliciesAfterGetOrCreate(pols, filename)
    IN after[CHOOSE i \in 1..Len(after) :
                /\ after[i].document_source_filename = filename
                /\ \A j \in 1..(i - 1) : after[j].document_source_filename # filename]

\* the foreign key policy_chunks.policy_id -> policies.id rejects the rows
ForeignKeyViolated(pols, documents) ==
    \E i \in 1..Len(documents) :
        documents[i].policy_id.n \notin {pols[j].id : j \in 1..Len(pols)}

\* the embeddings stage 2 computes for its chunks before add_documents_to_db,
\* then add_documents_to_db: [ok, svc, chunks]
EmbedThenAdd(first, s, pols, chunks, documents, commit_raises) ==
    IF ~first.ok THEN [ok |-> FALSE, svc |-> first.svc, chunks |-> chunks]
    ELSE add_documents_to_db(s, chunks, documents,
                             commit_raises \/ ForeignKeyViolated(pols, documents))

\* the store after the loop body of vector_processing_step for a row found
VectorProcessingDocuments(s, pols, chunks, documents, commit_raises) ==
    IF documents = <<>>
    THEN add_documents_to_db(s, chunks, documents, commit_raises)
    ELSE EmbedThenAdd(get_text_embedding(s, Str(documents[1].chunk_text)),
                      s, pols, chunks, documents, commit_raises)

\* the store after the loop body of vector_processing_step: [ok, svc, chunks]
VectorProcessingPersist(s, rows, pols, chunks, policy_number, raises, commit_raises) ==
    IF raises \/ ~HasPolicy(rows, policy_number)
    THEN [ok |-> FALSE, svc |-> s, chunks |-> chunks]
    ELSE VectorProcessingDocuments(s, pols, chunks,
             chunk_policy_json_ingest(RowPolicyData(FirstPolicy(rows, policy_number)),
                 PyStr(FirstPolicy(rows, policy_number).id),
                 Basename(FirstPolicy(rows, policy_number).original_document_gcs_path)),
             commit_raises)

\* the chunk rows store_chunks_step adds for the chunks of one policy, with a
\* VectorService s built for them: [ok, svc, chunks]
StoreChunkRows(s, chunks, documents, commit_raises) ==
    CommitBatch(s, chunks, documents,
                [i \in 1..Len(documents) |-> get_text_embedding(s, Str(documents[i].chunk_text))],
                commit_raises)

\* the store after the loop body of store_chunks_step for a row found
StoreChunksPersist(row, pols, chunks, query_raises, commit_raises) ==
    StoreChunkRows(VectorService(chunks, query_raises), chunks,
                   chunk_policy_json_store(RowPolicyData(row),
                       PyInt(get_or_create_policy(pols, Basename(row.original_document_gcs_path)).id),
                       Basename(row.original_document_gcs_path)),
                   commit_raises)

\* the policy of b.pdf and its chunks as an earlier run of store_chunks_step
\* left them
SeededPolicies == <<[id |-> 1, document_source_filename |-> "b.pdf"]>>

SeededStore ==
    add_documents_to_db(VectorService(<<>>, TRUE), <<>>,
                        chunk_policy_json_store(PolicyB, PyInt(1), "b.pdf"), FALSE).chunks

\* the policy numbers the stages are handed
StagePolicyNumbers == {Str("P1"), Str("P2"), Str("P9")}

StoreInit ==
    /\ policy_rows = <<RowA, RowB>>
    /\ \/ policies = <<>> /\ policy_chunks = <<>>
       \/ policies = SeededPolicies /\ policy_chunks = SeededStore
    /\ lib_resets_tfidf \in BOOLEAN
    /\ svc = NotRun
    /\ svc_call = NotRun
    /\ threads = <<>>
    /\ step = <<>>
    /\ query_call = NotRun
    /\ query_prev = NotRun
    /\ ChunkIdle
    /\ ChainIdle
    /\ TrackerIdle

\* vector_processing_step up to its loop: vector_service = VectorService()
VectorProcessingStart ==
    \E query_raises \in BOOLEAN :
        /\ svc' = VectorService(policy_chunks, query_raises)
        /\ svc_call' = [op |-> "vector_processing_step"]
        /\ UNCHANGED <<policy_chunks, lib_resets_tfidf, policies, threads, step, query_call, query_prev, policy_rows,
                       chunkVars, chainVars, trackerVars>>

\* one iteration of the loop of vector_processing_step, with what it persists
VectorProcessingItem ==
    \E policy_number \in StagePolicyNumbers, raises \in BOOLEAN, commit_raises \in BOOLEAN :
        /\ svc # NotRun
        /\ Len(policy_chunks) < MaxStoredChunks
        /\ LET r == VectorProcessingPersist(svc, policy_rows, policies, policy_chunks,
                                            policy_number, raises, commit_raises)
           IN /\ svc' = r.svc
              /\ policy_chunks' = r.chunks
              /\ svc_call' = [op |-> "vector_processing_item",
                              policy_number |-> policy_number, ok |-> r.ok,
                              committed |-> Len(r.chunks) - Len(policy_chunks)]
        /\ UNCHANGED <<lib_resets_tfidf, policies, threads, step, query_call, query_prev, policy_rows,
                       chunkVars, chainVars, trackerVars>>

\* whether a later statement of the loop body raises: it is not reached once an
\* earlier one raised
AfterFault(raised) == IF raised THEN {FALSE} ELSE BOOLEAN

\* the call that ran just before an iteration of store_chunks_step, when it was
\* an iteration of vector_processing_step (the stage before it in a chain) that
\* succeeded for the same policy
Stage2Call(call, policy_number) ==
    IF /\ call # NotRun
       /\ call.op = "vector_processing_item"
       /\ call.ok
       /\ call.policy_number = policy_number
    THEN call ELSE NotRun

\* one iteration of the loop of store_chunks_step, with what it persists, the
\* entries it appends to results and the number of chunk rows it commits
StoreChunksItem ==
    \E policy_number \in StagePolicyNumbers, raises \in BOOLEAN :
      \E query_raises \in AfterFault(raises) :
      \E commit_raises \in AfterFault(raises) :
      \E update_state_raises \in AfterFault(raises \/ commit_raises) :
        /\ Len(policy_chunks) < MaxStoredChunks
        /\ IF raises \/ ~HasPolicy(policy_rows, policy_number)
           THEN /\ UNCHANGED <<policies, policy_chunks>>
                /\ svc_call' = [op |-> "store_chunks_item",
                                policy_number |-> policy_number, ok |-> FALSE,
                                entries |-> store_chunks_item(<<>>, policy_number, policy_rows,
                                                              raises, update_state_raises),
                                committed |-> 0, stage2 |-> Stage2Call(svc_call, policy_number)]
           ELSE LET r == StoreChunksPersist(FirstPolicy(policy_rows, policy_number),
                                            policies, policy_chunks, query_raises, commit_raises)
                IN /\ policies' = PoliciesAfterGetOrCreate(policies,
                          Basename(FirstPolicy(policy_rows, policy_number).original_document_gcs_path))
                   /\ policy_chunks' = r.chunks
                   /\ svc_call' = [op |-> "store_chunks_item",
                                   policy_number |-> policy_number, ok |-> r.ok,
                                   entries |-> store_chunks_item(<<>>, policy_number, policy_rows,
                                                                 ~r.ok, update_state_raises),
                                   committed |-> Len(r.chunks) - Len(policy_chunks),
                                   stage2 |-> Stage2Call(svc_call, policy_number)]
        /\ UNCHANGED <<lib_resets_tfidf, svc, threads, step, query_call, query_prev, policy_rows,
                       chunkVars, chainVars, trackerVars>>

StoreNext ==
    \/ VectorProcessingStart
    \/ VectorProcessingItem
    \/ StoreChunksItem

SpecStore == StoreInit /\ [][StoreNext]_vars

----------------------------------------------------------------------------
(* Stage 4 and the records it writes: update_context_step *)

\* structured data of a policy with an expiration date, and of one without
PolicyC ==
    <<[k |-> "policy_number", v |-> Str("P3")],
      [k |-> "expiration_date", v |-> Str("2026-12-31")]>>

PolicyD == <<[k |-> "policy_number", v |-> Str("P4")]>>

\* a processed_policy_data row with its renewal_date column
ContextRow(id, data, path, renewal_date) ==
    [id |-> id, policy_number |-> DictGet(data, "policy_number"), data |-> data,
     original_document_gcs_path |-> path, renewal_date |-> renewal_date]

\* the row as scripts/ingest_policies_to_vector_db.py create_policy_record
\* inserts it: renewal_date is not set
IngestedRow(id, data, path) == ContextRow(id, data, path, None)

\* the row as upload_policy inserts it: renewal_date=policy_data.get('expiration_date')
UploadedRow(id, data, path) == ContextRow(id, data, path, DictGet(data, "expiration_date"))

\* the row after PATCH /api/policies/<id>/context with a renewalDate
PatchedRow(row, renewal_date) == [row EXCEPT !.renewal_date = renewal_date]

ContextTables ==
    { <<IngestedRow(1, PolicyC, "c.pdf")>>,
      <<UploadedRow(1, PolicyC, "c.pdf"), IngestedRow(2, PolicyD, "d.pdf")>>,
      <<PatchedRow(UploadedRow(1, PolicyC, "c.pdf"), Str("2026-06-30"))>> }

ContextBatches == {<<Str("P3")>>, <<Str("P3"), Str("P9")>>, <<Str("P4"), Str("P3")>>}

\* the policies table after the update of the policy record in the loop body of
\* update_context_step: get_or_create_policy commits a new Policy; roof_age,
\* renewal_date and features are set on the Policy object, which has no such
\* columns, so the commit that follows writes none of them
PoliciesAfterContext(pols, row) ==
    PoliciesAfterGetOrCreate(pols, Basename(row.original_document_gcs_path))

\* processed_policy_data after the loop body of update_context_step: the row is
\* only read
RowsAfterContext(rows, policy_number) == rows

ContextInit ==
    /\ upload = [phase |-> "responded", file_paths |-> <<>>, response |-> NotRun]
    /\ temp_files = {}
    /\ policy_rows \in ContextTables
    /\ \E items \in ContextBatches : broker = {Message(Len(ChainTasks), items)}
    /\ worker = [w \in Workers |-> Idle]
    /\ returned = [k \in 0..Len(ChainTasks) |-> NotDone]
    /\ stage_log = [k \in StagePositions |-> [attempted |-> {}, raised |-> {}]]
    /\ policies \in {<<>>, SeededPolicies}
    /\ threads = <<>>
    /\ step = <<>>
    /\ query_call = NotRun
    /\ query_prev = NotRun
    /\ ChunkIdle
    /\ VectorIdle
    /\ TrackerIdle

\* one iteration of the loop of update_context_step, with what it writes to the
\* database; created tells whether get_or_create_policy committed before the
\* exception the handler around the update catches
ContextItem(w) ==
    \E raises \in BOOLEAN, commit_raises \in BOOLEAN, update_state_raises \in BOOLEAN,
       created \in BOOLEAN :
        /\ worker[w] # Idle
        /\ worker[w].task = "update_context_step"
        /\ ~worker[w].failed
        /\ worker[w].i < Len(worker[w].items)
        /\ worker' = [worker EXCEPT
              ![w].i = @ + 1,
              ![w].results = update_context_item(@, worker[w].items[worker[w].i + 1],
                                 policy_rows, raises, commit_raises, update_state_raises)]
        /\ IF raises \/ ~HasPolicy(policy_rows, worker[w].items[worker[w].i + 1])
              \/ (commit_raises /\ ~created)
           THEN UNCHANGED <<policies, policy_rows>>
           ELSE /\ policies' = PoliciesAfterContext(policies,
                       FirstPolicy(policy_rows, worker[w].items[worker[w].i + 1]))
                /\ policy_rows' = IF commit_raises THEN policy_rows
                                  ELSE RowsAfterContext(policy_rows,
                                           worker[w].items[worker[w].i + 1])
        /\ stage_log' = [stage_log EXCEPT
              ![worker[w].pos].attempted = @ \cup {worker[w].i + 1}]
        /\ UNCHANGED <<upload, temp_files, broker, returned, threads, step,
                       query_call, query_prev,
                       chunkVars, vectorVars, trackerVars>>

ContextNext ==
    \/ \E w \in Workers : StageStart(w)
    \/ \E w \in Workers : ContextItem(w)
    \/ \E w \in Workers : StageReturn(w)

SpecContext == ContextInit /\ [][ContextNext]_vars

----------------------------------------------------------------------------
(* Question answering over a policy's raw text: routes/api_adapter_routes.py *)
(* query_policy                                                              *)

RECURSIVE SplitFrom(_, _)
SplitFrom(s, from) ==
    IF FindFrom(s, "\n", from) = 0 THEN <<SubSeq(s, from, Len(s))>>
    ELSE <<SubSeq(s, from, FindFrom(s, "\n", from) - 1)>>
         \o SplitFrom(s, FindFrom(s, "\n", from) + 1)

\* str.split('\n')
SplitNewline(s) == SplitFrom(s, 1)

\* str.splitlines() of a text whose only line breaks are "\n"
SplitLines(s) ==
    IF s = "" THEN <<>>
    ELSE IF SplitNewline(s)[Len(SplitNewline(s))] = ""
    THEN SubSeq(SplitNewline(s), 1, Len(SplitNewline(s)) - 1)
    ELSE SplitNewline(s)

\* any(word in s for word in words)
ContainsAny(s, words) == \E i \in 1..Len(words) : Contains(s, words[i])

\* keyword_mappings, in the order of the dict
keyword_mappings ==
    << [key |-> "policy number", keywords |-> <<"policy number", "policy_number">>],
       [key |-> "premium", keywords |-> <<"premium", "total annual premium", "annual premium">>],
       [key |-> "deductible", keywords |-> <<"deductible", "deductibles">>],
       [key |-> "coverage",
        keywords |-> <<"coverage", "coverage details", "dwelling coverage",
                       "personal property", "liability">>],
       [key |-> "expire", keywords |-> <<"expiration", "expire", "expiration date">>],
       [key |-> "effective", keywords |-> <<"effective", "effective date">>],
       [key |-> "insurer", keywords |-> <<"insurer", "insurance company">>],
       [key |-> "policyholder", keywords |-> <<"policyholder", "insured">>],
       [key |-> "address", keywords |-> <<"address", "property address">>] >>

RECURSIVE MappedKeywords(_, _)
\* the keywords of the mappings from position i on whose key occurs in the query
MappedKeywords(query_lower, i) ==
    IF i > Len(keyword_mappings) THEN <<>>
    ELSE (IF Contains(query_lower, keyword_mappings[i].key)
          THEN keyword_mappings[i].keywords ELSE <<>>)
         \o MappedKeywords(query_lower, i + 1)

\* matched_keywords: the mapped keywords, or the query itself when there are none
MatchedKeywords(query_lower) ==
    IF MappedKeywords(query_lower, 1) = <<>> THEN <<query_lower>>
    ELSE MappedKeywords(query_lower, 1)

\* [line for line in lines if any(keyword in line.lower() for keyword in keywords)]
LinesWithAny(lines, keywords) ==
    SelectSeq(lines, LAMBDA line : ContainsAny(Lower(line), keywords))

\* the first element of a list that satisfies a test, 0 when none does
FirstIndex(q, Test(_)) ==
    IF \E i \in 1..Len(q) : Test(q[i])
    THEN CHOOSE i \in 1..Len(q) : Test(q[i]) /\ \A j \in 1..(i - 1) : ~Test(q[j])
    ELSE 0

\* a[i..i+k-1] == b[j..j+k-1]
CommonAt(a, b, i, j, k) == SubSeq(a, i, i + k - 1) = SubSeq(b, j, j + k - 1)

\* the length of the longest block a[alo..ahi] and b[blo..bhi] have in common
LongestLen(a, b, alo, ahi, blo, bhi) ==
    LET ks == {k \in 1..Min(ahi - alo + 1, bhi - blo + 1) :
                  \E i \in alo..(ahi - k + 1), j \in blo..(bhi - k + 1) : CommonAt(a, b, i, j, k)}
    IN IF ks = {} THEN 0 ELSE CHOOSE k \in ks : \A m \in ks : m <= k

\* find_longest_match: of the longest blocks the one that starts earliest in a ...
BlockStartA(a, b, alo, ahi, blo, bhi, k) ==
    CHOOSE i \in alo..(ahi - k + 1) :
        /\ \E j \in blo..(bhi - k + 1) : CommonAt(a, b, i, j, k)
        /\ \A h \in alo..(i - 1) : \A j \in blo..(bhi - k + 1) : ~CommonAt(a, b, h, j, k)

\* ... and of those the one that starts earliest in b
BlockStartB(a, b, blo, bhi, k, i) ==
    CHOOSE j \in blo..(bhi - k + 1) :
        /\ CommonAt(a, b, i, j, k)
        /\ \A h \in blo..(j - 1) : ~CommonAt(a, b, i, h, k)

RECURSIVE MatchCount(_, _, _, _, _, _)
MatchAround(a, b, alo, ahi, blo, bhi, k, i, j) ==
    k + MatchCount(a, b, alo, i - 1, blo, j - 1) + MatchCount(a, b, i + k, ahi, j + k, bhi)

MatchAroundA(a, b, alo, ahi, blo, bhi, k, i) ==
    MatchAround(a, b, alo, ahi, blo, bhi, k, i, BlockStartB(a, b, blo, bhi, k, i))

MatchOfLen(a, b, alo, ahi, blo, bhi, k) ==
    IF k = 0 THEN 0
    ELSE MatchAroundA(a, b, alo, ahi, blo, bhi, k, BlockStartA(a, b, alo, ahi, blo, bhi, k))

\* the characters in the matching blocks of SequenceMatcher(None, a, b): the
\* longest common block, then the same to its left and to its right
MatchCount(a, b, alo, ahi, blo, bhi) ==
    IF alo > ahi \/ blo > bhi THEN 0
    ELSE MatchOfLen(a, b, alo, ahi, blo, bhi, LongestLen(a, b, alo, ahi, blo, bhi))

\* SequenceMatcher.ratio() = 2.0 * matches / (len(a) + len(b)) as the pair of
\* its numerator and denominator; 1.0 for two empty strings
Ratio(a, b) ==
    IF Len(a) + Len(b) = 0 THEN [num |-> 1, den |-> 1]
    ELSE [num |-> 2 * MatchCount(a, b, 1, Len(a), 1, Len(b)), den |-> Len(a) + Len(b)]

\* ratio >= cutoff, the cutoff in tenths
AtLeast(r, cutoff) == 10 * r.num >= cutoff * r.den

\* code-point order of the characters of the texts
CodeOrder == "\n $%(),-./" \o DigitStr \o ":?" \o UpperStr \o "_" \o LowerStr

RECURSIVE CodeLessFrom(_, _, _)
CodeLessFrom(a, b, i) ==
    IF i > Len(b) THEN FALSE
    ELSE IF i > Len(a) THEN TRUE
    ELSE IF IndexIn(CharAt(a, i), CodeOrder) < IndexIn(CharAt(b, i), CodeOrder) THEN TRUE
    ELSE IF IndexIn(CharAt(a, i), CodeOrder) > IndexIn(CharAt(b, i), CodeOrder) THEN FALSE
    ELSE CodeLessFrom(a, b, i + 1)

\* (score, x) < (score', x') on the tuples heapq.nlargest compares
ScoredLess(x, y) ==
    \/ x.score.num * y.score.den < y.score.num * x.score.den
    \/ /\ x.score.num * y.score.den = y.score.num * x.score.den
       /\ CodeLessFrom(x.s, y.s, 1)

\* the (score, x) pairs of the possibilities that reach the cutoff
CloseCandidates(word, possibilities, cutoff) ==
    { c \in {[score |-> Ratio(possibilities[i], word), s |-> possibilities[i]] :
                i \in 1..Len(possibilities)} : AtLeast(c.score, cutoff) }

\* the best of a set of (score, x) pairs as a list of at most one string
BestOf(cands) ==
    IF cands = {} THEN <<>>
    ELSE <<(CHOOSE c \in cands : \A d \in cands : ~ScoredLess(c, d)).s>>

\* difflib.get_close_matches(word, possibilities, n=1, cutoff=cutoff/10)
get_close_matches(word, possibilities, cutoff) ==
    BestOf(CloseCandidates(word, possibilities, cutoff))

\* [line.lower() for line in lines]
LowerLines(lines) == [i \in 1..Len(lines) |-> Lower(lines[i])]

\* lines[[line.lower() for line in lines].index(match)].strip()
LineOfMatch(lines, match) ==
    Strip(lines[CHOOSE i \in 1..Len(lines) :
                   /\ Lower(lines[i]) = match
                   /\ \A j \in 1..(i - 1) : Lower(lines[j]) # match])

RECURSIVE FuzzyCandidates(_, _)
\* candidates: for every keyword the line closest to it, if one reaches 0.6
FuzzyCandidates(keywords, lines) ==
    IF keywords = <<>> THEN <<>>
    ELSE (IF get_close_matches(Head(keywords), LowerLines(lines), 6) = <<>> THEN <<>>
          ELSE <<LineOfMatch(lines, get_close_matches(Head(keywords), LowerLines(lines), 6)[1])>>)
         \o FuzzyCandidates(Tail(keywords), lines)

RECURSIVE RemoveFrom(_, _, _)
RemoveFrom(s, sub, from) ==
    IF FindFrom(s, sub, from) = 0 THEN SubSeq(s, from, Len(s))
    ELSE SubSeq(s, from, FindFrom(s, sub, from) - 1)
         \o RemoveFrom(s, sub, FindFrom(s, sub, from) + Len(sub))

\* s.replace(sub, '')
Remove(s, sub) == RemoveFrom(s, sub, 1)

\* str.isdigit() on ASCII text
IsDigits(s) == s # "" /\ \A i \in 1..Len(s) : CharAt(s, i) \in CharsOf(DigitStr)

\* next_line.replace(',', '').replace('.', '').replace('(', '').replace(')', '')
\*     .replace('%','').replace('of','').replace('A','').strip().isdigit()
LooksNumeric(next_line) ==
    IsDigits(Strip(Remove(Remove(Remove(Remove(Remove(Remove(Remove(next_line,
        ","), "."), "("), ")"), "%"), "of"), "A")))

\* the end of the run of characters of a set that starts at position p
RunEnd(s, p, chars) ==
    CHOOSE e \in p..Len(s) :
        /\ \A i \in p..e : CharAt(s, i) \in chars
        /\ (e = Len(s) \/ CharAt(s, e + 1) \notin chars)

\* the match of (?:\.\d{2})? after position e: its last position
CentsEnd(s, e) ==
    IF e + 3 <= Len(s) /\ CharAt(s, e + 1) = "."
       /\ CharAt(s, e + 2) \in CharsOf(DigitStr) /\ CharAt(s, e + 3) \in CharsOf(DigitStr)
    THEN e + 3 ELSE e

\* positions where \$[\d,]+ can start
DollarStarts(s) ==
    {p \in 1..(Len(s) - 1) : CharAt(s, p) = "$" /\ CharAt(s, p + 1) \in CharsOf(DigitStr \o ",")}

DollarFrom(s, p) == SubSeq(s, p, CentsEnd(s, RunEnd(s, p + 1, CharsOf(DigitStr \o ","))))

\* re.search(r'\$[\d,]+(?:\.\d{2})?', s).group(), "" when there is no match
DollarAmount(s) ==
    IF DollarStarts(s) = {} THEN ""
    ELSE DollarFrom(s, CHOOSE p \in DollarStarts(s) : \A q \in DollarStarts(s) : p <= q)

CoverageWords ==
    <<"coverage a", "coverage b", "coverage c", "coverage d", "coverage e", "coverage f">>

\* the line of the header of the coverage table: 'coverage type' with 'limit' on
\* the next line; 0 when there is none
TableStart(lines) ==
    LET hits == {i \in 1..(Len(lines) - 1) :
                    /\ Contains(Lower(lines[i]), "coverage type")
                    /\ Contains(Lower(lines[i + 1]), "limit")}
    IN IF hits = {} THEN 0 ELSE CHOOSE i \in hits : \A j \in hits : i <= j

\* the line at which the loop over the table breaks, Len(lines) + 1 when it runs out
TableStop(lines, start) ==
    LET stops == {i \in (start + 1)..Len(lines) :
                     \/ Strip(lines[i]) = ""
                     \/ Contains(Lower(Strip(lines[i])), "deductibles")
                     \/ Contains(Lower(Strip(lines[i])), "endorsements")}
    IN IF stops = {} THEN Len(lines) + 1 ELSE CHOOSE i \in stops : \A j \in stops : i <= j

\* the lines after line i, at most four, that hold a dollar amount
LimitLines(lines, i) ==
    {j \in (i + 1)..Min(i + 4, Len(lines)) : DollarAmount(Strip(lines[j])) # ""}

\* the entry of the table line i: its limit when one of the next lines has a
\* dollar amount, the line alone otherwise
TableEntry(lines, i) ==
    IF LimitLines(lines, i) = {} THEN Strip(lines[i])
    ELSE Strip(lines[i]) \o ": "
         \o DollarAmount(Strip(lines[CHOOSE j \in LimitLines(lines, i) :
                                         \A h \in LimitLines(lines, i) : j <= h]))

RECURSIVE TableInfo(_, _, _)
\* coverage_info of the lines i..stop-1 of the table
TableInfo(lines, i, stop) ==
    IF i >= stop THEN <<>>
    ELSE (IF ContainsAny(Lower(Strip(lines[i])), CoverageWords)
          THEN <<TableEntry(lines, i)>> ELSE <<>>)
         \o TableInfo(lines, i + 1, stop)

\* the lines after line i, at most three, with a $ or a number
AmountLines(lines, i) ==
    {j \in (i + 1)..Min(i + 3, Len(lines)) :
        \/ Contains(Strip(lines[j]), "$")
        \/ (LooksNumeric(Strip(lines[j])) /\ Len(Strip(lines[j])) > 2)}

ListEntry(lines, i) ==
    IF AmountLines(lines, i) = {} THEN Strip(lines[i])
    ELSE Strip(lines[i]) \o ": "
         \o Strip(lines[CHOOSE j \in AmountLines(lines, i) :
                           \A h \in AmountLines(lines, i) : j <= h])

RECURSIVE ListInfo(_, _)
\* coverage_info of the old method from line i on
ListInfo(lines, i) ==
    IF i > Len(lines) THEN <<>>
    ELSE (IF ContainsAny(Strip(Lower(lines[i])), CoverageWords)
          THEN <<ListEntry(lines, i)>> ELSE <<>>)
         \o ListInfo(lines, i + 1)

\* coverage_info as the table parser leaves it
TableCoverage(lines) ==
    IF TableStart(lines) = 0 THEN <<>>
    ELSE TableInfo(lines, TableStart(lines) + 1, TableStop(lines, TableStart(lines)))

\* coverage_info: from the table, or by the old method when that found nothing
CoverageInformation(lines) ==
    IF TableCoverage(lines) = <<>> THEN ListInfo(lines, 1) ELSE TableCoverage(lines)

\* line.split(':', 1)[1].strip()
AfterColon(line) == Strip(SubSeq(line, FindFrom(line, ":", 1) + 1, Len(line)))

\* the entry of premium_info for one line of found_content, if it has one
PremiumEntry(line) ==
    IF Contains(Lower(line), "total annual premium")
    THEN (IF Contains(Strip(line), ":")
          THEN <<"Total Annual Premium: " \o AfterColon(Strip(line))>> ELSE <<>>)
    ELSE IF Contains(Lower(line), "premium") /\ Contains(line, "$") THEN <<Strip(line)>>
    ELSE <<>>

RECURSIVE PremiumInfo(_)
PremiumInfo(found_content) ==
    IF found_content = <<>> THEN <<>>
    ELSE PremiumEntry(Head(found_content)) \o PremiumInfo(Tail(found_content))

DateChars == CharsOf(DigitStr \o "/.-")

\* the position after the whitespace that follows position c
SkipSpace(s, c) ==
    CHOOSE p \in (c + 1)..(Len(s) + 1) :
        /\ \A i \in (c + 1)..(p - 1) : CharAt(s, i) \in Whitespace
        /\ (p = Len(s) + 1 \/ CharAt(s, p) \notin Whitespace)

\* the start of group 1 when word[^:]*:\s*([0-9/\.-]+) matches with word at
\* position p, 0 when it does not: the first colon after the word, the
\* whitespace after it, then a date character
DateStart(line, word, p) ==
    IF FindFrom(line, ":", p + Len(word)) = 0 THEN 0
    ELSE IF SkipSpace(line, FindFrom(line, ":", p + Len(word))) > Len(line) THEN 0
    ELSE IF CharAt(line, SkipSpace(line, FindFrom(line, ":", p + Len(word)))) \in DateChars
    THEN SkipSpace(line, FindFrom(line, ":", p + Len(word)))
    ELSE 0

\* the occurrences of word in the line, any case, from which the pattern matches
DateMatches(line, word) ==
    {p \in 1..Len(line) :
        /\ p + Len(word) - 1 <= Len(line)
        /\ SubSeq(Lower(line), p, p + Len(word) - 1) = word
        /\ DateStart(line, word, p) # 0}

DateFrom(line, d) == SubSeq(line, d, RunEnd(line, d, DateChars))

\* re.search(word + r'[^:]*:\s*([0-9/\.-]+)', line, re.IGNORECASE).group(1), ""
\* when there is no match
DateAfter(line, word) ==
    IF DateMatches(line, word) = {} THEN ""
    ELSE DateFrom(line, DateStart(line, word,
             CHOOSE p \in DateMatches(line, word) : \A q \in DateMatches(line, word) : p <= q))

RECURSIVE FirstDate(_, _)
\* date_match: the date of the first line that has one, "" when none has
FirstDate(lines, word) ==
    IF lines = <<>> THEN ""
    ELSE IF DateAfter(Head(lines), word) # "" THEN DateAfter(Head(lines), word)
    ELSE FirstDate(Tail(lines), word)

AddressTerms == <<"address", "location", "property", "residence", "dwelling">>

header_phrases == <<"deductible annual premium", "deductibles", "coverage type", "limit">>

\* the test of one line in the deductible branch
DeductibleLine(line) ==
    /\ \A i \in 1..Len(header_phrases) : Strip(Lower(line)) # header_phrases[i]
    /\ Contains(Lower(line), "deductible")
    /\ ContainsAny(Strip(Lower(line)), <<"$", "%", "per occurrence", "wind/hail">>)
    /\ Strip(line) # ""

StripAll(lines) == [i \in 1..Len(lines) |-> Strip(lines[i])]

SourceOf(policy) ==
    <<"Policy " \o policy.policy_number.s \o " - " \o policy.original_document_gcs_path>>

\* jsonify({'answer': ..., 'sources': ..., 'confidence': ...}); the confidence in
\* tenths, path the branch of query_policy that built the answer
Answer(path, answer, sources, confidence) ==
    [code |-> 200, path |-> path, answer |-> answer, sources |-> sources,
     confidence |-> confidence]

ErrorResponse(code, error) == [code |-> code, error |-> error]

CouldNotFind(what) ==
    "I could not find specific " \o what \o " in the policy documents."

CoverageAnswer(policy, info) ==
    IF info # <<>>
    THEN Answer("coverage_field", "Coverage information: " \o Join(info, "; "),
                SourceOf(policy), 9)
    ELSE Answer("coverage_none", CouldNotFind("coverage information"), SourceOf(policy), 0)

DateAnswer(policy, name, label, date_match, date_lines) ==
    IF date_match # ""
    THEN Answer(name \o "_date", label \o ": " \o date_match, SourceOf(policy), 9)
    ELSE IF date_lines # <<>>
    THEN Answer(name \o "_line", label \o " information: " \o date_lines[1], SourceOf(policy), 5)
    ELSE Answer(name \o "_none", CouldNotFind(Lower(label) \o " information"),
                SourceOf(policy), 5)

AddressAnswer(policy, address_lines) ==
    IF address_lines # <<>>
    THEN Answer("address_line", "Address/Location information: " \o address_lines[1],
                SourceOf(policy), 8)
    ELSE Answer("address_none", CouldNotFind("address/location information"),
                SourceOf(policy), 0)

DeductibleAnswer(policy, info) ==
    IF info # <<>>
    THEN Answer("deductible_field", "Deductible information: " \o Join(info, "; "),
                SourceOf(policy), 9)
    ELSE Answer("deductible_none", CouldNotFind("deductible information"),
                SourceOf(policy), 0)

\* the fuzzy match on the whole query, once no keyword had a close line
QueryFuzzy(policy, query_lower, lines, matches) ==
    IF matches # <<>>
    THEN Answer("fuzzy_query", "Closest match: " \o LineOfMatch(lines, matches[1]),
                SourceOf(policy), 5)
    ELSE Answer("not_found", CouldNotFind("information about that"), <<>>, 0)

\* if not found_content: the fuzzy matching on lines
FuzzyAnswer(policy, query_lower, lines, candidates) ==
    IF candidates # <<>>
    THEN Answer("fuzzy_keyword", "Closest match: " \o Join(candidates, "; "),
                SourceOf(policy), 6)
    ELSE QueryFuzzy(policy, query_lower, lines,
                    get_close_matches(query_lower, LowerLines(lines), 5))

\* the answer of the premium branch when found_content is not empty
PremiumAnswer(policy, found_content, premium_info) ==
    IF premium_info # <<>>
    THEN Answer("premium_field", "Premium information: " \o Join(premium_info, "; "),
                SourceOf(policy), 8)
    ELSE Answer("premium_line",
                "Based on the policy documents, I found the premium information: "
                    \o found_content[1],
                SourceOf(policy), 8)

ContentAnswer(policy, found_content) ==
    Answer("content_line", "Based on the policy documents, I found: " \o found_content[1],
           SourceOf(policy), 8)

\* the branches of query_policy once the policy and its raw text are at hand
AnswerQuery(policy, query_lower, raw_text, lines, found_content) ==
    IF Contains(query_lower, "coverage")
    THEN CoverageAnswer(policy, CoverageInformation(SplitNewline(raw_text)))
    ELSE IF Contains(query_lower, "premium") /\ found_content # <<>>
    THEN PremiumAnswer(policy, found_content, PremiumInfo(found_content))
    ELSE IF Contains(query_lower, "premium")
    THEN FuzzyAnswer(policy, query_lower, lines,
                     FuzzyCandidates(MatchedKeywords(query_lower), lines))
    ELSE IF Contains(query_lower, "effective")
    THEN DateAnswer(policy, "effective", "Effective date",
                    FirstDate(LinesWithAny(lines, <<"effective">>), "effective"),
                    LinesWithAny(lines, <<"effective">>))
    ELSE IF Contains(query_lower, "expire") \/ Contains(query_lower, "expiration")
    THEN DateAnswer(policy, "expiration", "Expiration date",
                    FirstDate(LinesWithAny(lines, <<"expiration", "expire">>), "expir"),
                    LinesWithAny(lines, <<"expiration", "expire">>))
    ELSE IF Contains(query_lower, "address") \/ Contains(query_lower, "location")
    THEN AddressAnswer(policy, StripAll(LinesWithAny(lines, AddressTerms)))
    ELSE IF Contains(query_lower, "deductible")
    THEN DeductibleAnswer(policy,
             StripAll(SelectSeq(SplitNewline(raw_text), DeductibleLine)))
    ELSE IF found_content # <<>> THEN ContentAnswer(policy, found_content)
    ELSE FuzzyAnswer(policy, query_lower, lines,
                     FuzzyCandidates(MatchedKeywords(query_lower), lines))

\* ProcessedPolicyData.query.get(id): the row with that id, None when there is none
RowById(rows, id) ==
    IF \E i \in 1..Len(rows) : rows[i].id = id
    THEN rows[CHOOSE i \in 1..Len(rows) : rows[i].id = id]
    ELSE None

QueryWithText(policy, query, raw_text) ==
    AnswerQuery(policy, Lower(query), raw_text, SplitLines(raw_text),
                LinesWithAny(SplitLines(raw_text), MatchedKeywords(Lower(query))))

QueryFound(policy, query) ==
    IF "t" \in DOMAIN policy THEN ErrorResponse(404, "Policy not found")
    ELSE IF ~Truthy(DictGet(policy.data, "raw_text"))
    THEN ErrorResponse(404, "No policy content available for querying")
    ELSE QueryWithText(policy, query, DictGet(policy.data, "raw_text").s)

\* query_policy for the request body {'policyId': policy_id, 'query': query}
query_policy(rows, policy_id, query) ==
    IF ~Truthy(policy_id) \/ policy_id.n = 0 \/ ~Truthy(query)
    THEN ErrorResponse(400, "Policy ID and query are required")
    ELSE QueryFound(RowById(rows, policy_id.n), query.s)

\* the raw texts of the policies queried
TextA ==
    "Policy Number: HO-1\nEffective Date: 01/01/2025\nTOTAL ANNUAL PREMIUM: $1,200.00\n"
    \o "Coverage A Dwelling\n$250,000\nWind/Hail Deductible: $1,000\n"
    \o "Property Address: 1 Elm St\nPolicy holder: Ann Lee"

TextB ==
    "Coverage Type\nLimit\nCoverage A\n$250,000.00\nCoverage B\n25,000\n\n"
    \o "Effective from renewal\nExpires at year end\nAnnual premium due\nroof age 12"

QueryRow(id, policy_number, raw_text, path) ==
    [id |-> id, policy_number |-> Str(policy_number),
     data |-> <<[k |-> "policy_number", v |-> Str(policy_number)], [k |-> "raw_text", v |-> raw_text]>>,
     original_document_gcs_path |-> path]

QueryTable ==
    <<QueryRow(1, "HO-1", Str(TextA), "a.pdf"), QueryRow(2, "HO-2", Str(TextB), "b.pdf"),
      QueryRow(3, "HO-3", None, "c.pdf")>>

IntV(n) == [t |-> "int", n |-> n]

PolicyIds == {None, IntV(1), IntV(2), IntV(3), IntV(9)}

QueryTexts ==
    {None, Str("What is my coverage?"), Str("premium"), Str("effective date"),
     Str("When does it expire"), Str("property address"), Str("deductible"),
     Str("policy number"), Str("policyholder"), Str("roofing"), Str("flood zone")}

QueryInit ==
    /\ policy_rows = QueryTable
    /\ query_call = NotRun
    /\ query_prev = NotRun
    /\ policies = <<>>
    /\ threads = <<>>
    /\ step = <<>>
    /\ ChunkIdle
    /\ VectorIdle
    /\ ChainIdle
    /\ TrackerIdle

\* POST /api/policies/query
QueryPolicy ==
    \E policy_id \in PolicyIds, query \in QueryTexts :
        /\ query_call' = query_policy(policy_rows, policy_id, query)
        /\ query_prev' = query_call
        /\ UNCHANGED <<policy_rows, policies, threads, step,
                       chunkVars, vectorVars, chainVars, trackerVars>>

QueryNext == QueryPolicy

SpecQuery == QueryInit /\ [][QueryNext]_vars

----------------------------------------------------------------------------
(* Processing tasks: routes/api_adapter_routes.py, models.ProcessingTask *)

MaxTasks == 1
MaxBatch == 101

\* the ids AsyncResult is asked about
CeleryIds == {"c1"}

\* sizes of the batch the tracked Celery task works on
BatchSizes == {2, MaxBatch}

\* ProcessingTask.status and ProcessingTask.progress when the constructor is not
\* given them
DefaultTask(task_id, celery_task_id) ==
    [task_id |-> task_id, celery_task_id |-> celery_task_id,
     status |-> "pending", progress |-> 0]

\* what the history of a row records: the statuses it has held, whether it left
\* a terminal status, whether its progress went down
NewLog(status) == [seen |-> {status}, left_terminal |-> FALSE, decreased |-> FALSE]

Terminal == {"completed", "failed"}

LogAfter(log, before, after) ==
    [seen |-> log.seen \cup {after.status},
     left_terminal |-> log.left_terminal
                       \/ (before.status \in Terminal /\ after.status # before.status),
     decreased |-> log.decreased \/ after.progress < before.progress]

\* the state Celery's result backend holds for a task id
NewCeleryTask(total) == [state |-> "PENDING", i |-> 0, current |-> 0, total |-> total]

\* the policy number upload_policy stores: the form field, else the extracted
\* one, else one derived from the task id
UploadPolicyNumber(form_number, policy_data, task_id) ==
    IF Truthy(form_number) THEN form_number
    ELSE IF \E j \in 1..Len(policy_data) : policy_data[j].k = "policy_number"
    THEN DictGet(policy_data, "policy_number")
    ELSE Str("UPLOAD-" \o ToString(task_id))

\* the ProcessedPolicyData row upload_policy adds for a processed document
UploadedPolicy(rows, form_number, policy_data, filename, task_id) ==
    [id |-> Len(rows) + 1,
     policy_number |-> UploadPolicyNumber(form_number, policy_data, task_id),
     data |-> policy_data,
     original_document_gcs_path |-> filename]

\* the ProcessingTask row upload_policy adds for the result of process_document
UploadedTask(task_id, result) ==
    IF result.status = "success"
    THEN [task_id |-> task_id, celery_task_id |-> None, status |-> "completed", progress |-> 100]
    ELSE [task_id |-> task_id, celery_task_id |-> None, status |-> "failed", progress |-> 0]

\* the response of upload_policy for a saved file: the processed document, the
\* document process_document rejected, or the handler of an exception raised
\* while processing
UploadPolicyResponse(task_id, result, policy_id, raises) ==
    IF raises
    THEN [code |-> 500, taskId |-> task_id,
          message |-> "Upload successful, but processing failed", error |-> "exception"]
    ELSE IF result.status = "success"
    THEN [code |-> 200, taskId |-> task_id,
          message |-> "Upload successful, document processed",
          status |-> "completed", policyId |-> policy_id]
    ELSE [code |-> 500, taskId |-> task_id,
          message |-> "Upload successful, but processing failed", status |-> "failed"]

\* get_processing_task(task_id) finds a row: it does not answer 404 'Task not found'
TaskFound(tasks, task_id) == task_id \in 1..Len(tasks)

\* the row get_processing_task commits for what AsyncResult reports
PolledTask(task, celery_result) ==
    IF ~Truthy(task.celery_task_id) THEN task
    ELSE IF celery_result.state = "SUCCESS"
    THEN [task EXCEPT !.status = "completed", !.progress = 100]
    ELSE IF celery_result.state = "FAILURE"
    THEN [task EXCEPT !.status = "failed"]
    ELSE IF celery_result.state = "PROGRESS"
    THEN [task EXCEPT !.status = "processing", !.progress = celery_result.current]
    ELSE task

\* the table as a deployment may hold it when the model starts: empty, or one row
\* created with the column defaults and linked to a Celery task
TrackerInit ==
    /\ \E total \in BatchSizes : celery_tasks = [c \in CeleryIds |-> NewCeleryTask(total)]
    /\ \/ processing_tasks = <<>> /\ task_log = <<>>
       \/ /\ processing_tasks = <<DefaultTask(1, Str("c1"))>>
          /\ task_log = <<NewLog("pending")>>
    /\ upload_reply = NotRun
    /\ policy_rows = <<>>
    /\ ChunkIdle
    /\ VectorIdle
    /\ ChainIdle
    /\ StoreIdle

\* POST /api/policies/upload: the document is processed in the request; raises
\* stands for an exception of the processor, of the text extraction or of a commit
UploadPolicy ==
    \E filename \in {"a.pdf", "x.pdf"}, form_number \in {None, Str("P9")}, raises \in BOOLEAN :
        /\ Len(processing_tasks) < MaxTasks
        /\ IF raises
           THEN UNCHANGED <<processing_tasks, task_log, policy_rows>>
           ELSE /\ processing_tasks' =
                      Append(processing_tasks,
                             UploadedTask(Len(processing_tasks) + 1, process_document(filename)))
                /\ task_log' =
                      Append(task_log,
                             NewLog(UploadedTask(Len(processing_tasks) + 1,
                                                 process_document(filename)).status))
                /\ policy_rows' =
                      IF process_document(filename).status = "success"
                      THEN Append(policy_rows,
                                  UploadedPolicy(policy_rows, form_number,
                                                 process_document(filename).data, filename,
                                                 Len(processing_tasks) + 1))
                      ELSE policy_rows
        /\ upload_reply' = UploadPolicyResponse(Len(processing_tasks) + 1,
                                                process_document(filename),
                                                Len(policy_rows) + 1, raises)
        /\ UNCHANGED <<celery_tasks, chunkVars, vectorVars, chainVars, storeVars>>

\* GET /api/processing-tasks/<task_id>; an unknown id answers 404
GetProcessingTask ==
    \E task_id \in 1..MaxTasks :
        /\ IF task_id \in 1..Len(processing_tasks)
           THEN /\ processing_tasks' =
                      [processing_tasks EXCEPT ![task_id] =
                          PolledTask(@, IF Truthy(@.celery_task_id)
                                        THEN celery_tasks[@.celery_task_id.s]
                                        ELSE NewCeleryTask(0))]
                /\ task_log' =
                      [task_log EXCEPT ![task_id] =
                          LogAfter(@, processing_tasks[task_id], processing_tasks'[task_id])]
           ELSE UNCHANGED <<processing_tasks, task_log>>
        /\ UNCHANGED <<celery_tasks, upload_reply, policy_rows,
                       chunkVars, vectorVars, chainVars, storeVars>>

\* process_documents_step starts: update_state(current=0); when that or the set-up
\* raises, the outer handler returns an error dict and the task has succeeded
TaskStart(c) ==
    \E start_raises \in BOOLEAN :
        /\ celery_tasks[c].state = "PENDING"
        /\ celery_tasks' = [celery_tasks EXCEPT ![c].state =
                               IF start_raises THEN "SUCCESS" ELSE "PROGRESS"]
        /\ UNCHANGED <<processing_tasks, task_log, upload_reply, policy_rows,
                       chunkVars, vectorVars, chainVars, storeVars>>

\* one iteration of its loop: update_state(current=i+1) unless the body raised
TaskItem(c) ==
    \E raises \in BOOLEAN :
        /\ celery_tasks[c].state = "PROGRESS"
        /\ celery_tasks[c].i < celery_tasks[c].total
        /\ celery_tasks' = [celery_tasks EXCEPT
              ![c].i = @ + 1,
              ![c].current = IF raises THEN @ ELSE celery_tasks[c].i + 1]
        /\ UNCHANGED <<processing_tasks, task_log, upload_reply, policy_rows,
                       chunkVars, vectorVars, chainVars, storeVars>>

\* the task returns its result
TaskReturn(c) ==
    /\ celery_tasks[c].state = "PROGRESS"
    /\ celery_tasks[c].i = celery_tasks[c].total
    /\ celery_tasks' = [celery_tasks EXCEPT ![c].state = "SUCCESS"]
    /\ UNCHANGED <<processing_tasks, task_log, upload_reply, policy_rows,
                   chunkVars, vectorVars, chainVars, storeVars>>

\* the worker running the task is lost or its time limit expires
TaskLost(c) ==
    /\ celery_tasks[c].state = "PROGRESS"
    /\ celery_tasks' = [celery_tasks EXCEPT ![c].state = "FAILURE"]
    /\ UNCHANGED <<processing_tasks, task_log, upload_reply, policy_rows,
                   chunkVars, vectorVars, chainVars, storeVars>>

TrackerNext ==
    \/ UploadPolicy
    \/ GetProcessingTask
    \/ \E c \in CeleryIds : TaskStart(c)
    \/ \E c \in CeleryIds : TaskItem(c)
    \/ \E c \in CeleryIds : TaskReturn(c)
    \/ \E c \in CeleryIds : TaskLost(c)

SpecTracker == TrackerInit /\ [][TrackerNext]_vars

----------------------------------------------------------------------------
(* Stage hand-off, result entries, failure isolation, sequencing, fallback *)

ExtractPositions == (1..Len(ChainTasks)) \ StagePositions

\* the batch the stage at position k was given
StageInput(k) == IF k = 1 THEN upload.file_paths ELSE returned[k - 1].value

\* the entry names the input item of a stage at position k
Names(entry, k, item) ==
    IF k = 1 THEN "file_path" \in DOMAIN entry /\ entry.file_path = item
    ELSE "policy_number" \in DOMAIN entry /\ entry.policy_number = item

RECURSIVE NumbersOfSuccesses(_)
\* the policy numbers of the entries whose status is 'success', in result order
NumbersOfSuccesses(results) ==
    IF results = <<>> THEN <<>>
    ELSE (IF IsSuccess(Head(results)) THEN <<PolicyNumberOf(Head(results))>> ELSE <<>>)
         \o NumbersOfSuccesses(Tail(results))

RECURSIVE NumbersOfNumberedSuccesses(_)
\* the same, leaving out the entries whose policy number is None or empty
NumbersOfNumberedSuccesses(results) ==
    IF results = <<>> THEN <<>>
    ELSE (IF IsSuccess(Head(results)) /\ Truthy(PolicyNumberOf(Head(results)))
          THEN <<PolicyNumberOf(Head(results))>> ELSE <<>>)
         \o NumbersOfNumberedSuccesses(Tail(results))

\* C1 as stated: for every stage result with status 'success', the list the
\* extractor hands to the next stage is exactly the policy numbers of the result
\* entries whose status is 'success', in result order.
C1_HandOffEverySuccess ==
    \A k \in ExtractPositions :
        (returned[k].done /\ returned[k - 1].done /\ returned[k - 1].value.status = "success") =>
            returned[k].value = NumbersOfSuccesses(returned[k - 1].value.results)

\* C1 amended: the list handed on is exactly the policy numbers of the entries
\* whose status is 'success' and whose policy number is neither None nor empty,
\* in result order; a success entry without a policy number is not handed on.
C1_HandOff ==
    \A k \in ExtractPositions :
        (returned[k].done /\ returned[k - 1].done /\ returned[k - 1].value.status = "success") =>
            returned[k].value = NumbersOfNumberedSuccesses(returned[k - 1].value.results)

\* three files of which one failed extraction: two policy numbers reach stage 2
C1_Witness ==
    /\ returned[1].done /\ returned[1].value.status = "success"
    /\ Len(returned[1].value.results) = 3
    /\ \E i \in 1..3 : ~IsSuccess(returned[1].value.results[i])
    /\ returned[2].done /\ returned[2].value = <<Str("P1"), Str("P2")>>

\* C2 as stated: whenever a stage task returns status 'success', its results
\* list has exactly one entry per input item, in input order, whatever the
\* per-item failures and wherever in the loop body the exception is raised.
C2_OneEntryPerItem ==
    \A k \in StagePositions :
        (returned[k].done /\ returned[k].value.status = "success") =>
            /\ Len(returned[k].value.results) = returned[k].value.total_count
            /\ Len(returned[k].value.results) = Len(StageInput(k))
            /\ \A i \in 1..Len(StageInput(k)) :
                   Names(returned[k].value.results[i], k, StageInput(k)[i])

\* item i of the batch has an entry with status 'error' among results
HasErrorEntry(results, k, item) ==
    \E j \in 1..Len(results) : ~IsSuccess(results[j]) /\ Names(results[j], k, item)

\* C3: in each stage task, an exception raised while processing item i is caught
\* inside the stage: an entry with status 'error' is recorded for item i, every
\* later item is still processed, and the stage returns status 'success'.
C3_FailureIsolation ==
    /\ \A w \in DOMAIN worker :
           worker[w] # Idle =>
               \A i \in stage_log[worker[w].pos].raised :
                   HasErrorEntry(worker[w].results, worker[w].pos, worker[w].items[i])
    /\ \A k \in DOMAIN stage_log :
           (returned[k].done /\ stage_log[k].raised # {}) =>
               /\ returned[k].value.status = "success"
               /\ stage_log[k].attempted = 1..Len(StageInput(k))
               /\ \A i \in stage_log[k].raised :
                      HasErrorEntry(returned[k].value.results, k, StageInput(k)[i])

\* the embedding stage raised in the first of two items and went on to the second
C3_Witness ==
    /\ returned[3].done
    /\ stage_log[3].raised = {1}
    /\ Len(returned[2].value) = 2
    /\ Len(returned[3].value.results) = 2
    /\ IsSuccess(returned[3].value.results[2])

\* C4: in a chain built by run_chained_pipeline the links run in chain order,
\* and no stage works on an item before every earlier link has returned its
\* complete result, whichever worker takes which task.
C4_StrictSequencing ==
    /\ \A w \in DOMAIN worker :
           worker[w] # Idle =>
               /\ \A j \in 1..(worker[w].pos - 1) : returned[j].done
               /\ \A v \in DOMAIN worker : v # w => worker[v] = Idle
    /\ \A m \in broker : \A j \in 1..(m.pos - 1) : returned[j].done
    /\ \A k \in 1..Len(ChainTasks) : returned[k].done => \A j \in 1..(k - 1) : returned[j].done

\* the last stage is half way through a batch of two while another worker idles
C4_Witness ==
    \E w \in DOMAIN worker :
        /\ worker[w] # Idle
        /\ worker[w].task = "update_context_step"
        /\ Len(worker[w].items) = 2 /\ worker[w].i = 1

\* the entry shapes process_documents_step produces
StageEntryKeys == {{"file_path", "status", "policy_number", "data"}, {"file_path", "status", "error"}}

\* C10 as stated: the synchronous fallback answers with status 'completed' and
\* one entry per input file, each carrying a status of 'success' or 'error' in
\* the entry shape of process_documents_step, also for a file whose processing
\* raises.
C10_FallbackShape ==
    ("code" \in DOMAIN upload.response /\ upload.response.code = 200) =>
        /\ upload.response.status = "completed"
        /\ Len(upload.response.results) = Len(upload.file_paths)
        /\ \A i \in 1..Len(upload.file_paths) :
               /\ "status" \in DOMAIN upload.response.results[i]
               /\ upload.response.results[i].status \in {"success", "error"}
               /\ DOMAIN upload.response.results[i] \in StageEntryKeys

----------------------------------------------------------------------------
(* Scope isolation and embedding length *)

\* the last call on the service was op
Called(op) == "op" \in DOMAIN svc_call /\ svc_call.op = op

\* the policy ids a scope filter names
ScopeOf(filters) == {filters[i].v : i \in {j \in 1..Len(filters) : filters[j].k = "policy_id"}}

\* C5: for any content of the chunk store, a search called with filters
\* {'policy_id': p} returns no entry whose policy_id differs from p.
C5_ScopeIsolation ==
    (Called("search") /\ svc_call.ok) =>
        \A p \in ScopeOf(svc_call.filters) :
            \A i \in 1..Len(svc_call.val) : PyInt(svc_call.val[i].policy_id) = p

\* a scoped search answered from a store that also holds another policy's chunks
C5_Witness ==
    /\ Called("search") /\ svc_call.ok
    /\ svc_call.filters = <<[k |-> "policy_id", v |-> PyInt(1)]>>
    /\ Len(svc_call.val) > 0
    /\ \E i \in 1..Len(policy_chunks) : policy_chunks[i].policy_id = 2

\* C6 as stated: whenever get_text_embedding returns on a fitted vectorizer, the
\* returned vector is as long as the vectorizer's current vocabulary.
C6_EmbeddingLength ==
    (Called("embed") /\ svc_call.ok /\ svc.fitted) =>
        svc_call.val.n = Len(svc.vocabulary)

----------------------------------------------------------------------------
(* Raw-text round trip *)

RECURSIVE ConcatRaw(_)
\* the chunk_text of the raw-text chunks of a chunk list, concatenated in order
ConcatRaw(chunks) ==
    IF chunks = <<>> THEN ""
    ELSE (IF Head(chunks).section_type = "raw_text" THEN Head(chunks).chunk_text ELSE "")
         \o ConcatRaw(Tail(chunks))

RawOf(policy_data) == DictGet(policy_data, "raw_text")

RawSegments(chunks) == {i \in 1..Len(chunks) : chunks[i].section_type = "raw_text"}

\* C7 as stated: for every non-empty raw text R, the raw-text chunks of either
\* chunk_policy_json, concatenated in emission order, give back exactly R.
C7_RoundTripEveryNonEmpty ==
    (RawOf(cj_data).t = "str" /\ RawOf(cj_data).s # "") =>
        /\ cj_ingest # NotRun => ConcatRaw(cj_ingest.l) = RawOf(cj_data).s
        /\ cj_store # NotRun => ConcatRaw(cj_store.l) = RawOf(cj_data).s

\* C7 amended: the stage-3 chunker gives back every non-empty raw text; the
\* stage-2 chunker gives back every raw text that has a non-whitespace character,
\* and for a whitespace-only raw text it emits the text extract_raw_text
\* substitutes (another text field, or text built from the other fields).
C7_RoundTrip ==
    /\ (cj_store # NotRun /\ RawOf(cj_data).t = "str" /\ RawOf(cj_data).s # "") =>
           ConcatRaw(cj_store.l) = RawOf(cj_data).s
    /\ (cj_ingest # NotRun /\ RawOf(cj_data).t = "str" /\ ~IsBlank(RawOf(cj_data).s)) =>
           ConcatRaw(cj_ingest.l) = RawOf(cj_data).s
    /\ (cj_ingest # NotRun /\ RawOf(cj_data).t = "str" /\ IsBlank(RawOf(cj_data).s)) =>
           ConcatRaw(cj_ingest.l) = extract_raw_text(cj_data)

\* a text of more than two segments has been split by both chunkers
C7_Witness ==
    /\ RawOf(cj_data).t = "str" /\ Len(RawOf(cj_data).s) > 2 * chunk_size
    /\ cj_ingest # NotRun /\ Cardinality(RawSegments(cj_ingest.l)) = 3
    /\ cj_store # NotRun /\ Cardinality(RawSegments(cj_store.l)) = 3

----------------------------------------------------------------------------
(* Task status and progress *)

\* C8 as stated: a ProcessingTask's status only moves pending -> processing ->
\* completed or failed: no row holds a terminal status without having held
\* 'processing' before, and no row leaves a terminal status.
C8_StatusProgression ==
    \A t \in 1..Len(processing_tasks) :
        /\ processing_tasks[t].status \in Terminal => "processing" \in task_log[t].seen
        /\ ~task_log[t].left_terminal

----------------------------------------------------------------------------
(* Vocabulary rebuild as readers see it *)

\* the observations of the get_text_embedding calls made so far: the reader's
\* and those add_documents_to_db made itself after its refit
Observations ==
    {threads.reader.seen[i] : i \in 1..Len(IF "seen" \in DOMAIN threads.reader
                                            THEN threads.reader.seen ELSE <<>>)}
    \cup {threads.writer.seen[i] : i \in 1..Len(IF "seen" \in DOMAIN threads.writer
                                                THEN threads.writer.seen ELSE <<>>)}

\* C11 as stated: a get_text_embedding call interleaved with the refit of
\* add_documents_to_db observes a complete vocabulary, old or new, with
\* vocab_size agreeing with the vocabulary it observes, and the refit never
\* mutates the vectorizer a reader holds.
C11_AtomicRebuild ==
    /\ \A o \in Observations : o.vocab_size = Len(o.vocabulary)
    /\ "mutated" \in DOMAIN threads.reader =>
           /\ ~threads.reader.mutated
           /\ "vocabulary" \in DOMAIN threads.reader =>
                  threads.reader.vocabulary \in threads.reader.complete

----------------------------------------------------------------------------
(* What the chain's caller is told *)

\* the result the caller of the chain obtains: that of its last link, whose id
\* pipeline_chain.apply_async() returns
ChainResult == returned[Len(ChainTasks)]

\* C12 as stated: when a stage of a chain aborts as a whole and returns
\* {status: 'error', error: message}, the result the chain's caller obtains has
\* status 'error' and carries that message.
C12_AbortSurfaced ==
    \A k \in StagePositions :
        (returned[k].done /\ returned[k].value.status = "error" /\ ChainResult.done) =>
            /\ ChainResult.value.status = "error"
            /\ ChainResult.value.error = returned[k].value.error

\* the chain position of a task
PositionOf(task) == CHOOSE k \in 1..Len(ChainTasks) : ChainTasks[k] = task

\* the entry reports that the lookup of the policy found no row
NotFound(entry) == "error" \in DOMAIN entry /\ entry.error = "Policy not found in database"

\* C13 as stated: a policy record with policy_number n exists by the time
\* vector_processing_step looks up an identifier n that process_documents_step
\* handed over, so stage 2 never reports 'Policy not found in database' for it.
C13_PolicyCreatedOnExtraction ==
    /\ \A w \in DOMAIN worker :
           (worker[w] # Idle /\ worker[w].task = "vector_processing_step") =>
               \A j \in 1..worker[w].i : HasPolicy(policy_rows, worker[w].items[j])
    /\ (returned[PositionOf("vector_processing_step")].done
        /\ returned[PositionOf("vector_processing_step")].value.status = "success") =>
           \A j \in 1..Len(returned[PositionOf("vector_processing_step")].value.results) :
               ~NotFound(returned[PositionOf("vector_processing_step")].value.results[j])

----------------------------------------------------------------------------
(* Chunk ownership *)

\* C14 as stated: every persisted chunk row has a policy_id that is the id of
\* the Policy record of the document the chunk was cut from, so its
\* document_source_filename equals that of its owning Policy.
C14_ChunkOwnership ==
    \A i \in 1..Len(policy_chunks) :
        \E j \in 1..Len(policies) :
            /\ policies[j].id = policy_chunks[i].policy_id
            /\ policies[j].document_source_filename = policy_chunks[i].document_source_filename

----------------------------------------------------------------------------
(* Empty query *)

\* C15 as stated: on a VectorService constructed over any chunk store, the empty
\* store included, get_text_embedding("") returns without raising an all-zero
\* vector as long as the vocabulary, and search_similar_chunks("") returns an
\* empty list.
C15_EmptyQuery ==
    /\ (Called("embed") /\ svc_call.text = Str("")) =>
           /\ svc_call.ok
           /\ AllZero(svc_call.val)
           /\ svc_call.val.n = Len(svc.vocabulary)
    /\ (Called("search") /\ svc_call.query = Str("")) =>
           /\ svc_call.ok
           /\ svc_call.val = <<>>

----------------------------------------------------------------------------
(* Ranking *)

\* C16: in every list search_similar_chunks returns, the similarity of the
\* entry at position i is greater than or equal to that of the entry at i+1.
C16_MonotonicRanking ==
    (Called("search") /\ svc_call.ok) =>
        \A i \in 1..(Len(svc_call.val) - 1) :
            ~SimGreater(svc_call.val[i + 1].similarity, svc_call.val[i].similarity)

\* a search returned entries of different similarity, the better one first,
\* taken from a chunk stored after the other
C16_Witness ==
    /\ Called("search") /\ svc_call.ok
    /\ \E i \in 1..(Len(svc_call.val) - 1) :
           /\ SimGreater(svc_call.val[i].similarity, svc_call.val[i + 1].similarity)
           /\ \E a, b \in 1..Len(policy_chunks) :
                  /\ a < b
                  /\ policy_chunks[b].section_type = svc_call.val[i].section_type
                  /\ policy_chunks[b].policy_id = svc_call.val[i].policy_id
                  /\ policy_chunks[a].section_type = svc_call.val[i + 1].section_type
                  /\ policy_chunks[a].policy_id = svc_call.val[i + 1].policy_id

\* the stored chunks a scope selects that have a non-zero norm
InScope(filters) ==
    SelectSeq(policy_chunks, LAMBDA row :
        /\ RowMatches(row, filters)
        /\ ~ZeroNorm(PadOrTruncate(row.embedding, svc.vocab_size)))

\* the in-scope chunks scored against the query and ranked, best first, equal
\* scores in the order read
Ranking(query, filters) ==
    SortBySimilarity(ScoreChunks(svc, InScope(filters),
                                 get_text_embedding(svc, query).val, <<>>))

\* C17 as stated: for a query with a non-zero embedding, search_similar_chunks
\* returns exactly the top_k highest-scoring in-scope chunks of non-zero norm
\* (all of them when there are fewer), ties in the order the chunks were read.
C17_TopK ==
    (Called("search") /\ svc_call.ok /\ svc_call.query # Str("")) =>
        /\ Len(svc_call.val) = Min(svc_call.top_k, Len(InScope(svc_call.filters)))
        /\ \A i \in 1..Len(svc_call.val) :
               /\ i <= Len(Ranking(svc_call.query, svc_call.filters))
               /\ svc_call.val[i].policy_id =
                      Ranking(svc_call.query, svc_call.filters)[i].chunk.policy_id
               /\ svc_call.val[i].section_type =
                      Ranking(svc_call.query, svc_call.filters)[i].chunk.section_type

----------------------------------------------------------------------------
(* Empty batch *)

\* the well-formed empty result
EmptyResult ==
    [status |-> "success", results |-> <<>>, successful_count |-> 0, total_count |-> 0]

StepReturned(k) == step[k] # NotRun /\ step[k].phase = "returned"

----------------------------------------------------------------------------
(* Coverage labels *)

\* the coverage chunks of a chunk list, in emission order
CoverageOf(chunks) ==
    SelectSeq(chunks, LAMBDA c : c.section_type \notin {"policy_details", "raw_text"})

\* the labels are coverage_1, coverage_2, ..., coverage_k in emission order
RunningLabels(chunks) ==
    \A j \in 1..Len(CoverageOf(chunks)) :
        CoverageOf(chunks)[j].section_type = "coverage_" \o ToString(j)

\* C19 as stated: the k coverage chunks either chunk_policy_json emits are
\* labelled coverage_1, ..., coverage_k in emission order, also when source
\* coverage entries without text are skipped.
C19_CoverageLabels ==
    /\ cj_ingest # NotRun => RunningLabels(cj_ingest.l)
    /\ cj_store # NotRun => RunningLabels(cj_store.l)

----------------------------------------------------------------------------
(* Policy data without raw text *)

\* policy data with no raw text: raw_text is absent, None or empty and no
\* other text field holds text
NoRawText(policy_data) ==
    /\ ~Truthy(RawOf(policy_data))
    /\ FirstTextField(policy_data, possible_fields).t # "str"

\* 1 if a non-null scalar field exists, plus the coverage entries with text
ExpectedChunks(policy_data) ==
    (IF PolicyDetailLines(policy_data) = <<>> THEN 0 ELSE 1)
    + Len(CoverageTexts(CoverageList(policy_data)))

\* C20 as stated: for policy data with no raw text both chunk_policy_json
\* implementations emit no raw-text chunk, so the chunk count is 1 if a non-null
\* scalar field exists plus the number of coverage entries that produce text,
\* and policy data with no usable field yields the empty list.
C20_NoRawTextNoChunk ==
    NoRawText(cj_data) =>
        /\ cj_ingest # NotRun =>
               /\ RawSegments(cj_ingest.l) = {}
               /\ Len(cj_ingest.l) = ExpectedChunks(cj_data)
        /\ cj_store # NotRun =>
               /\ RawSegments(cj_store.l) = {}
               /\ Len(cj_store.l) = ExpectedChunks(cj_data)

----------------------------------------------------------------------------
(* Chunk ordering *)

\* the category of a chunk: policy_details, then coverage, then raw text
CategoryRank(chunk) ==
    CASE chunk.section_type = "policy_details" -> 0
      [] chunk.section_type = "raw_text" -> 2
      [] OTHER -> 1

\* at most one policy_details chunk, first; the coverage chunks next, their
\* texts those of the source entries in source order; the raw-text chunks last,
\* together spelling raw in character order
Ordered(chunks, covs, raw) ==
    /\ Cardinality({i \in 1..Len(chunks) : chunks[i].section_type = "policy_details"}) <= 1
    /\ \A i, j \in 1..Len(chunks) : i < j => CategoryRank(chunks[i]) <= CategoryRank(chunks[j])
    /\ [i \in 1..Len(CoverageOf(chunks)) |-> CoverageOf(chunks)[i].chunk_text] = CoverageTexts(covs)
    /\ ConcatRaw(chunks) = raw

\* C21: every list chunk_policy_json returns holds at most one policy_details
\* chunk, which comes first, then the coverage chunks in source order, then the
\* raw-text chunks in character order.
C21_ChunkOrdering ==
    /\ cj_store # NotRun =>
           Ordered(cj_store.l, CoverageList(cj_data), StoreRawText(cj_data))
    /\ cj_ingest # NotRun =>
           Ordered(cj_ingest.l, CoverageList(cj_data), extract_raw_text(cj_data))

\* both chunkers returned a details chunk, two coverage chunks and three
\* raw-text segments
C21_Witness ==
    /\ cj_store # NotRun /\ cj_ingest # NotRun
    /\ Len(cj_store.l) > 0 /\ Len(cj_ingest.l) > 0
    /\ cj_store.l[1].section_type = "policy_details"
    /\ cj_ingest.l[1].section_type = "policy_details"
    /\ Len(CoverageOf(cj_store.l)) = 2 /\ Len(CoverageOf(cj_ingest.l)) = 2
    /\ Cardinality(RawSegments(cj_store.l)) = 3
    /\ Cardinality(RawSegments(cj_ingest.l)) = 3

----------------------------------------------------------------------------
(* Context persisted by stage 4 *)

\* the entries update_context_step has recorded so far or has returned
ContextEntries ==
    UNION {Range(worker[w].results) : w \in {v \in DOMAIN worker : worker[v] # Idle}}
    \cup (IF returned[Len(ChainTasks)].done /\ "results" \in DOMAIN returned[Len(ChainTasks)].value
          THEN Range(returned[Len(ChainTasks)].value.results) ELSE {})

\* C22 as stated: once update_context_step has recorded status 'success' for a
\* policy that has an expiration date, the processed_policy_data row the
\* proactive advisor reads has renewal_date equal to that expiration date.
C22_ContextPersisted ==
    \A e \in ContextEntries :
        (e.status = "success" /\ HasPolicy(policy_rows, e.policy_number)
         /\ Truthy(DictGet(FirstPolicy(policy_rows, e.policy_number).data, "expiration_date"))) =>
            FirstPolicy(policy_rows, e.policy_number).renewal_date =
                DictGet(FirstPolicy(policy_rows, e.policy_number).data, "expiration_date")

----------------------------------------------------------------------------
(* Confidence scale of query_policy *)

\* answers that quote a labelled field extracted from the text
DirectPaths ==
    {"coverage_field", "premium_field", "deductible_field", "effective_date", "expiration_date"}

\* answers that quote a line because it contains a keyword
KeywordPaths ==
    {"premium_line", "effective_line", "expiration_line", "address_line", "content_line"}

\* answers that quote the closest match of difflib
FuzzyPaths == {"fuzzy_keyword", "fuzzy_query"}

Answered(r) == r # NotRun /\ r.code = 200

\* the confidence of answer a is strictly above that of answer b
Above(a, b) == a.confidence > b.confidence

\* C23 as stated: the confidence of an answer of query_policy depends only on
\* the path that produced it, every direct labelled-field answer has a strictly
\* higher confidence than every keyword-containment answer, and every
\* keyword-containment answer a strictly higher one than every fuzzy-match
\* answer.
C23_ConfidenceScale ==
    (Answered(query_call) /\ Answered(query_prev)) =>
        /\ query_call.path = query_prev.path => query_call.confidence = query_prev.confidence
        /\ (query_call.path \in DirectPaths /\ query_prev.path \in KeywordPaths) =>
               Above(query_call, query_prev)
        /\ (query_call.path \in KeywordPaths /\ query_prev.path \in FuzzyPaths) =>
               Above(query_call, query_prev)

----------------------------------------------------------------------------
(* Vocabulary after add_documents_to_db *)

\* the vocabulary a fit on the texts of all stored chunks learns
CorpusVocabulary(chunks) ==
    LearnVocabulary([i \in 1..Len(chunks) |-> chunks[i].chunk_text])

\* the service's vocabulary is the one learned from v
VocabularyIs(s, v) == v.ok => s.vocabulary = v.vocabulary

\* C24 as stated: after add_documents_to_db(batch) has returned, the vocabulary
\* the service embeds with is the one derived from the texts of all stored
\* chunks, not only from the texts of the batch.
C24_VocabularyCoversCorpus ==
    (svc_call # NotRun /\ svc_call.op = "add" /\ svc_call.ok) =>
        VocabularyIs(svc, CorpusVocabulary(policy_chunks))

----------------------------------------------------------------------------
(* Chunk rows of a policy store_chunks_step failed on *)

\* store_chunks_step has just recorded status 'error' for the policy of its
\* iteration
RecordedError ==
    /\ svc_call # NotRun /\ svc_call.op = "store_chunks_item"
    /\ \E i \in 1..Len(svc_call.entries) :
          /\ svc_call.entries[i].status = "error"
          /\ svc_call.entries[i].policy_number = svc_call.policy_number

\* C25 as stated: when store_chunks_step records status 'error' for a policy,
\* no chunk row of that policy added during the invocation is committed.
C25_NoPartialStore == RecordedError => svc_call.committed = 0

----------------------------------------------------------------------------
(* Uploaded files and the dispatched chain *)

\* worker w is in the loop of process_documents_step, about to open its next file
AboutToOpen(w) ==
    /\ worker[w] # Idle
    /\ worker[w].task = "process_documents_step"
    /\ ~worker[w].failed
    /\ worker[w].i < Len(worker[w].items)

\* C26 as stated: every file path upload_and_process handed to the dispatched
\* chain still exists when process_documents_step opens it on a worker, however
\* the return of the request handler and the worker's execution interleave.
C26_FilesOutliveDispatch ==
    \A w \in Workers :
        AboutToOpen(w) => worker[w].items[worker[w].i + 1] \in temp_files

----------------------------------------------------------------------------
(* Status of a dispatched chain: routes/pipeline_routes.py *)

\* get_pipeline_status(task_id) for a Celery task id: AsyncResult(task_id) is
\* ready once the task of that id has returned; run_chained_pipeline returns a
\* dict on every path, so a ready result is successful
get_pipeline_status(results, task_id) ==
    IF results[task_id].done
    THEN [task_id |-> task_id, status |-> "completed", result |-> results[task_id].value]
    ELSE [task_id |-> task_id, status |-> "running"]

\* upload_and_process answered 202 with the id of the task it dispatched
Dispatched == upload.response # NotRun /\ upload.response.code = 202

\* C27 as stated: get_pipeline_status for the task id upload_and_process
\* returned reports 'completed' only after the contextualize stage of that
\* chain has returned.
C27_CompletedMeansChainDone ==
    (Dispatched /\ get_pipeline_status(returned, upload.response.task_id).status = "completed")
        => returned[Len(ChainTasks)].done

----------------------------------------------------------------------------
(* get_or_create_policy called from several tasks: scripts/store_policy_chunks.py *)

\* rows the policies table may hold before the calls stop
MaxPolicies == 4

\* the basenames of the documents the calls are made for
Filenames == {"a.pdf", "b.pdf"}

\* the first Policy row of a filename
FirstPolicyRecord(pols, filename) ==
    pols[CHOOSE i \in 1..Len(pols) :
            /\ pols[i].document_source_filename = filename
            /\ \A j \in 1..(i - 1) : pols[j].document_source_filename # filename]

\* callers that found no row and have not inserted theirs yet
Creating == {c \in Workers : threads[c].pc = "creating"}

RaceInit ==
    /\ policies \in {<<>>, SeededPolicies}
    /\ threads = [c \in Workers |-> [pc |-> "idle"]]
    /\ policy_rows = <<>>
    /\ step = <<>>
    /\ query_call = NotRun
    /\ query_prev = NotRun
    /\ ChunkIdle
    /\ VectorIdle
    /\ ChainIdle
    /\ TrackerIdle

\* policy = Policy.query.filter_by(document_source_filename=...).first(), and
\* the return of the row when there is one
GetPolicy(c) ==
    \E filename \in Filenames :
        /\ threads[c].pc \in {"idle", "returned"}
        /\ Len(policies) + Cardinality(Creating) < MaxPolicies
        /\ threads' = [threads EXCEPT ![c] =
              IF HasPolicyRecord(policies, filename)
              THEN [pc |-> "returned", filename |-> filename,
                    policy |-> FirstPolicyRecord(policies, filename)]
              ELSE [pc |-> "creating", filename |-> filename]]
        /\ UNCHANGED <<policies, step, query_call, query_prev, policy_rows,
                       chunkVars, vectorVars, chainVars, trackerVars>>

\* if not policy: db.session.add(Policy(...)); db.session.commit(); return policy
CreatePolicy(c) ==
    /\ threads[c].pc = "creating"
    /\ policies' = Append(policies, [id |-> NextPolicyId(policies),
                                     document_source_filename |-> threads[c].filename])
    /\ threads' = [threads EXCEPT ![c] =
          [pc |-> "returned", filename |-> threads[c].filename,
           policy |-> [id |-> NextPolicyId(policies),
                       document_source_filename |-> threads[c].filename]]]
    /\ UNCHANGED <<step, query_call, query_prev, policy_rows,
                   chunkVars, vectorVars, chainVars, trackerVars>>

RaceNext == \E c \in Workers : GetPolicy(c) \/ CreatePolicy(c)

SpecRace == RaceInit /\ [][RaceNext]_vars

\* the Policy rows of a filename
PolicyRecords(filename) ==
    {i \in 1..Len(policies) : policies[i].document_source_filename = filename}

\* C28 as stated: after any interleaving of get_or_create_policy calls for
\* documents with the same filename, at most one Policy row with that
\* document_source_filename exists and every call returned that row.
C28_OneRowPerFilename ==
    \A filename \in Filenames :
        /\ Cardinality(PolicyRecords(filename)) <= 1
        /\ \A c \in Workers :
              (threads[c].pc = "returned" /\ threads[c].filename = filename) =>
                  threads[c].policy = FirstPolicyRecord(policies, filename)

----------------------------------------------------------------------------
(* Chunk rows persisted by one chain run *)

\* what store_chunks_step reports as chunks_count for the policy: the number of
\* chunks chunk_policy_json emits for its row
EmittedChunks(policy_number) ==
    Len(chunk_policy_json_store(RowPolicyData(FirstPolicy(policy_rows, policy_number)),
            PyInt(1), Basename(FirstPolicy(policy_rows, policy_number).original_document_gcs_path)))

\* stage 3 has just succeeded for a policy right after stage 2 succeeded for it
SucceededAtBothStages ==
    /\ svc_call # NotRun /\ svc_call.op = "store_chunks_item"
    /\ svc_call.ok
    /\ \A i \in 1..Len(svc_call.entries) : svc_call.entries[i].status = "success"
    /\ svc_call.stage2 # NotRun
    /\ svc_call.stage2.ok
    /\ svc_call.stage2.policy_number = svc_call.policy_number

\* C29 as stated: when a policy succeeds at every stage of one chain run, the
\* chunk rows stored for it grow by exactly the number of chunks the Chunking
\* Engine emits for it.
C29_PersistedOnce ==
    SucceededAtBothStages =>
        svc_call.stage2.committed + svc_call.committed = EmittedChunks(svc_call.policy_number)

----------------------------------------------------------------------------
(* Task ids upload_policy returns *)

\* C30 as stated: for every outcome of upload_policy that returns a taskId
\* (extraction success, extraction error status, exception during processing),
\* a ProcessingTask record with that task_id exists afterwards, so
\* get_processing_task(taskId) does not answer 'Task not found'.
C30_ReturnedTaskTracked ==
    upload_reply # NotRun => TaskFound(processing_tasks, upload_reply.taskId)

====
